---- MODULE Spec2Model ----
(***************************************************************************)
(* Lifecycle and per-frame draw protocol of the two map overlays:          *)
(*   BabylonJSWebGLOverlayView  (Google Maps WebGLOverlayView wrapper)     *)
(*   MapBoxWebGLCustomLayer     (Mapbox CustomLayerInterface wrapper)      *)
(*                                                                         *)
(* One overlay instance is modelled; its adapter and constructor options   *)
(* are chosen in Init.  Engines, scenes and cameras are heap objects,      *)
(* identified by their index in the sequences engines, scenes, cameras;    *)
(* 0 stands for undefined.  The host map and the owner of the overlay are  *)
(* the environment: they call the handlers in any order.                   *)
(*                                                                         *)
(* babylon.js behaviour the handlers rely on:                              *)
(*   Engine.dispose()  disposes the engine and every scene created on it;  *)
(*   new FreeCamera(name, pos, scene) becomes scene.activeCamera when the  *)
(*                     scene has none;                                     *)
(*   Scene.render()    raises "No camera defined" without active camera;   *)
(*   Engine.wipeCaches(true) drops the engine's cached GL state.           *)
(***************************************************************************)
EXTENDS Integers, Sequences, FiniteSets

\* ---------------------------------------------------------------- bounds
\* number of engines (GL context acquisitions) one overlay may go through
MaxContexts == 3
\* number of distinct host view transforms a draw call may carry
MaxTransform == 2

\* number of waitForSceneInit() calls the owner may make
MaxWaits == 2
\* the count of timers a pending wait has scheduled saturates here
MaxPolls == 2
\* largest coordinate of an input vector or geographic point
MaxCoord == 2
\* element ids a page may hold besides the default one, "map"
MaxIds == 3
\* number of triangles in the index buffer of a mesh
MaxTriangles == 2
\* number of times the mesh fix-up is applied to one mesh
MaxFixes == 3
\* number of texture units of the device (maxCombinedTexturesImageUnits)
MaxUnits == 2
\* points of a route's overview path
MaxPathLen == 3
\* entries the route cache holds in the model
MaxCached == 1
\* meshes of the scene a picking ray may cross
MaxMeshes == 2
\* steps of a route handed to drawRoute
MaxSteps == 2
\* Polyline objects constructed in a run
MaxPolylines == 5

Transforms == 1..MaxTransform
Adapters == {"google", "mapbox"}
AnimationModes == {"always", "ondemand"}

VARIABLES
  adapter,         \* which class the instance is
  optCamera,       \* options.camera: id of the supplied camera, 0 when omitted
  animationMode,   \* BabylonJSWebGLOverlayView.animationMode ("none": Mapbox)
  _engine,         \* this._engine
  _scene,          \* this._scene
  _camera,         \* this._camera
  _map,            \* Mapbox: this._map is set
  engines,         \* heap: every Engine constructed so far
  scenes,          \* heap: every Scene constructed so far
  cameras,         \* heap: every Camera (supplied or created)
  hostState,       \* host side: "Unattached", "Attached", "Removed"
  hostCtx,         \* host side: the GL context handed to the overlay is live
  redrawPending,   \* host side: a repaint has been requested
  lastEvent,       \* the handler that ran last
  lastDraw,        \* what the last draw callback did
  waits,           \* the promises returned by waitForSceneInit()
  rotationInverse, \* this.rotationInverse (unit quaternion)
  rotationArray,   \* this.rotationArray (Euler angle triple)
  lastAxis,        \* argument of the last setUpAxis call
  points,          \* heap: the object last passed to setAnchor ("arg") and
                   \* the object the overlay made for itself ("own")
  anchorRef,       \* this.anchor: the heap object it refers to
  construction,    \* the options given to the constructor and its outcome
  mapInit,         \* the page's elements and the outcome of the last initMap
  mesh,            \* the mesh handed to fixMesh / reverseMeshIndices
  gl,              \* GL state of the shared context and the engine's cache
  geo,             \* the last coordinate conversions made
  routeCaches,     \* directions.ts: routeCaches, a Map keyed by route id
  lastRoute,       \* the last getPositionOnRoute call and its result
  projectionMatrixInverse, \* this.projectionMatrixInverse
  lastPick,        \* the last raycast call and its result
  polylines,       \* directions.ts: polylines, undefined until a route is drawn
  polylineMap      \* heap: for every Polyline constructed, whether it is on the map

vars == <<adapter, optCamera, animationMode, _engine, _scene, _camera, _map,
          engines, scenes, cameras, hostState, hostCtx, redrawPending,
          lastEvent, lastDraw, waits, rotationInverse, rotationArray,
          lastAxis, points, anchorRef, construction, mapInit, mesh, gl, geo,
          routeCaches, lastRoute, projectionMatrixInverse, lastPick,
          polylines, polylineMap>>

waitVars == <<waits>>
orientVars == <<rotationInverse, rotationArray, lastAxis>>
anchorVars == <<points, anchorRef>>
routeVars == <<routeCaches, lastRoute>>
pickVars == <<projectionMatrixInverse, lastPick>>
polylineVars == <<polylines, polylineMap>>
utilVars == <<construction, mapInit, mesh, gl, geo, routeVars, pickVars,
              polylineVars>>
ownerVars == <<waitVars, orientVars, anchorVars, utilVars>>
overlayVars == <<adapter, optCamera, animationMode, _engine, _scene, _camera,
                 _map, engines, scenes, cameras, hostState, hostCtx,
                 redrawPending, lastDraw>>

\* -------------------------------------------------- babylon.js heap objects
NewEngine == [disposed |-> FALSE, cache |-> "wiped"]
NewScene(e) == [engine |-> e, disposed |-> FALSE, activeCamera |-> 0]
\* scene 0: a scene of the owner, outside the overlay
\* a projection matrix, by what it was computed from
NoProjection ==
  [transform |-> 0, anchor |-> [lat |-> 0, lng |-> 0,
                                altitude |-> [def |-> TRUE, val |-> 0]],
   rotation |-> <<0, 0, 0>>]

NewCamera(s) == [scene |-> s, proj |-> NoProjection]

\* scene.dispose()
SceneDispose(S, s) == [S EXCEPT ![s].disposed = TRUE]

\* engine.dispose(): the engine
EngineDispose(E, e) == [E EXCEPT ![e].disposed = TRUE]

\* engine.dispose(): releases the scenes created on the engine
EngineDisposeScenes(S, e) ==
  [i \in DOMAIN S |-> IF S[i].engine = e THEN [S[i] EXCEPT !.disposed = TRUE]
                                         ELSE S[i]]

NoDraw == [log |-> <<>>, threw |-> FALSE, rendered |-> 0, transform |-> 0,
           renderProj |-> NoProjection, redraws |-> 0, wipeThrows |-> FALSE]

\* ------------------------------------------------------------ orientation
\* Vectors are integer triples.  A unit quaternion is [x, y, z, w, n2] and
\* stands for (x, y, z, w) / sqrt(n2), with x, y, z, w in lowest terms, so
\* that equal quaternions have equal representations.  Angles are counted
\* in quarter turns (pi/2 radians): all axes used are parallel or
\* perpendicular to the canonical up vector.
DEFAULT_UP == <<0, 1, 0>>

Abs(n) == IF n < 0 THEN -n ELSE n

RECURSIVE Gcd(_, _)
Gcd(a, b) == IF b = 0 THEN a ELSE Gcd(b, a % b)

Dot(a, b) == a[1] * b[1] + a[2] * b[2] + a[3] * b[3]

Cross(a, b) == <<a[2] * b[3] - a[3] * b[2],
                 a[3] * b[1] - a[1] * b[3],
                 a[1] * b[2] - a[2] * b[1]>>

\* the length of a vector whose length is a whole number
Length(v) == CHOOSE r \in 0..(Abs(v[1]) + Abs(v[2]) + Abs(v[3])) :
               r * r = Dot(v, v)

\* Vector3.normalize(): a zero vector is left as it is
Vector3Normalize(v) ==
  LET len == Length(v) IN
  IF len = 0 THEN v ELSE <<v[1] \div len, v[2] \div len, v[3] \div len>>

\* Quaternion.normalize() of (x, y, z, w)
QuaternionNormalize(x, y, z, w) ==
  LET g == Gcd(Gcd(Abs(x), Abs(y)), Gcd(Abs(z), Abs(w))) IN
  IF g = 0 THEN [x |-> 0, y |-> 0, z |-> 0, w |-> 0, n2 |-> 1]
  ELSE [x |-> x \div g, y |-> y \div g, z |-> z \div g, w |-> w \div g,
        n2 |-> (x * x + y * y + z * z + w * w) \div (g * g)]

\* Quaternion.FromUnitVectorsToRef(vecFrom, vecTo, result)
FromUnitVectors(vecFrom, vecTo) ==
  LET r == Dot(vecFrom, vecTo) + 1
      c == Cross(vecFrom, vecTo)
  IN IF r <= 0
       THEN IF Abs(vecFrom[1]) > Abs(vecFrom[3])
              THEN QuaternionNormalize(-vecFrom[2], vecFrom[1], 0, 0)
              ELSE QuaternionNormalize(0, -vecFrom[3], vecFrom[2], 0)
       ELSE QuaternionNormalize(c[1], c[2], c[3], r)

\* Quaternion.invert() of a unit quaternion: the conjugate
QuaternionInvert(q) == [q EXCEPT !.x = -q.x, !.y = -q.y, !.z = -q.z]

\* Vector3.applyRotationQuaternion(q): v + (2w(u x v) + 2 u x (u x v)) / n2
ApplyRotationQuaternion(v, q) ==
  LET u == <<q.x, q.y, q.z>>
      uv == Cross(u, v)
      uuv == Cross(u, uv)
  IN [i \in 1..3 |-> v[i] + (2 * q.w * uv[i] + 2 * uuv[i]) \div q.n2]

\* Math.atan2(y, x) in quarter turns, for a point on an axis
Atan2(y, x) ==
  CASE y = 0 /\ x >= 0 -> 0
    [] y > 0 /\ x = 0 -> 1
    [] y = 0 /\ x < 0 -> 2
    [] y < 0 /\ x = 0 -> -1

\* Math.asin(num / den) in quarter turns, for -1, 0 and 1
Asin(num, den) ==
  CASE num = 0 -> 0
    [] num = den -> 1
    [] num = -den -> -1

\* Quaternion.toEulerAngles(): [x, y, z] in quarter turns; the test of
\* zAxisY = (qy qz - qx qw) against the limit 0.4999999 is the test against
\* one half
ToEulerAngles(q) ==
  LET zAxisY == q.y * q.z - q.x * q.w
  IN IF 2 * zAxisY <= -q.n2
       THEN [x |-> 1, y |-> 2 * Atan2(q.y, q.w), z |-> 0]
     ELSE IF 2 * zAxisY >= q.n2
       THEN [x |-> -1, y |-> 2 * Atan2(q.y, q.w), z |-> 0]
     ELSE [x |-> Asin(-2 * zAxisY, q.n2),
           y |-> Atan2(2 * (q.z * q.x + q.y * q.w),
                       q.z * q.z - q.x * q.x - q.y * q.y + q.w * q.w),
           z |-> Atan2(2 * (q.x * q.y + q.z * q.w),
                       q.y * q.y + q.w * q.w - q.z * q.z - q.x * q.x)]

\* Tools.ToDegrees of an angle given in quarter turns
ToDegrees(a) == 90 * a

\* an argument of setUpAxis: a string or a Vector3
AxisName(n) == [kind |-> "string", name |-> n, vec |-> <<0, 0, 0>>]
AxisVector(v) == [kind |-> "vector", name |-> "", vec |-> v]

AxisNames == {"Y", "Z", "y", "z", "X"}
AxisVectors == {<<1, 0, 0>>, <<0, 0, MaxCoord>>}
AxisInputs == {AxisName(n) : n \in AxisNames}
              \cup {AxisVector(v) : v \in AxisVectors}

\* String.toLowerCase() on the names used
ToLowerCase(n) ==
  CASE n = "Y" -> "y"
    [] n = "Z" -> "z"
    [] n = "X" -> "x"
    [] OTHER -> n

\* setUpAxis whose unknown name selects the Z axis
UpVectorUnknownZ(axis) ==
  IF axis.kind # "string" THEN axis.vec
  ELSE IF ToLowerCase(axis.name) = "y" THEN <<0, 1, 0>>
  ELSE <<0, 0, 1>>

\* setUpAxis whose unknown name keeps the up vector in effect
UpVectorKeepsPrevious(axis) ==
  IF axis.kind # "string" THEN axis.vec
  ELSE IF ToLowerCase(axis.name) = "z" THEN <<0, 0, 1>>
  ELSE IF ToLowerCase(axis.name) = "y" THEN <<0, 1, 0>>
  ELSE ApplyRotationQuaternion(DEFAULT_UP, QuaternionInvert(rotationInverse))

\* setUpAxis: the up vector chosen for the argument, before normalize()
UpVector(axis) ==
  IF axis.kind # "string" THEN axis.vec
  ELSE IF ToLowerCase(axis.name) = "z" THEN <<0, 0, 1>>
  ELSE <<0, 1, 0>>

\* setUpAxis: console.warn is called
Warns(axis) ==
  /\ axis.kind = "string"
  /\ ToLowerCase(axis.name) # "z"
  /\ ToLowerCase(axis.name) # "y"

\* setUpAxis: q, the rotation of the normalized up vector onto DEFAULT_UP
UpAxisQuaternion(axis) ==
  FromUnitVectors(Vector3Normalize(UpVector(axis)), DEFAULT_UP)

\* setUpAxis: the Euler triple written to rotationArray, in degrees by the
\* Google overlay and as returned by toEulerAngles by the Mapbox layer
RotationArrayOf(q, a) ==
  LET euler == ToEulerAngles(q) IN
  IF a = "google"
    THEN <<ToDegrees(euler.x), ToDegrees(euler.y), ToDegrees(euler.z)>>
    ELSE <<euler.x, euler.y, euler.z>>

\* setUpAxis: this.rotationInverse.copyFrom(q).invert()
\*   copyFrom(q) writes q into rotationInverse; Quaternion.invert() returns
\*   the inverse as a new quaternion and leaves its receiver as it is
\*   (invertInPlace() is the call that changes it), and the result is dropped
RotationInverseOf(q) == q

\* the orientation fields as setUpAxis leaves them for q
OrientationOf(q, a) ==
  [inverse |-> RotationInverseOf(q), array |-> RotationArrayOf(q, a)]

\* the orientation fields now
Orientation == [inverse |-> rotationInverse, array |-> rotationArray]

\* the field initialisers: new Quaternion() and new Float32Array(3)
InitialOrientation ==
  [inverse |-> [x |-> 0, y |-> 0, z |-> 0, w |-> 1, n2 |-> 1],
   array |-> <<0, 0, 0>>]

\* ----------------------------------------------------------------- anchor
\* A JavaScript value of type number | undefined
Num(n) == [def |-> TRUE, val |-> n]
Undefined == [def |-> FALSE, val |-> 0]

Lats == {0, MaxCoord}
Lngs == {0, MaxCoord}
Alts == {0, MaxCoord}

\* A geographic point: an object literal, which has an altitude property or
\* not, or an instance of google.maps.LatLng or google.maps.LatLngAltitude
Literal(lat, lng) ==
  [kind |-> "literal", lat |-> lat, lng |-> lng, hasAltitude |-> FALSE,
   altitude |-> Undefined]
LiteralAlt(lat, lng, alt) ==
  [kind |-> "literal", lat |-> lat, lng |-> lng, hasAltitude |-> TRUE,
   altitude |-> alt]
LatLng(lat, lng) ==
  [kind |-> "LatLng", lat |-> lat, lng |-> lng, hasAltitude |-> FALSE,
   altitude |-> Undefined]
LatLngAltitude(lat, lng, alt) ==
  [kind |-> "LatLngAltitude", lat |-> lat, lng |-> lng, hasAltitude |-> TRUE,
   altitude |-> Num(alt)]

LiteralPoints ==
  {Literal(lat, lng) : lat \in Lats, lng \in Lngs}
  \cup {LiteralAlt(lat, lng, Num(alt)) :
          lat \in Lats, lng \in Lngs, alt \in Alts}
  \cup {LiteralAlt(lat, lng, Undefined) : lat \in Lats, lng \in Lngs}
InstancePoints ==
  {LatLng(lat, lng) : lat \in Lats, lng \in Lngs}
  \cup {LatLngAltitude(lat, lng, alt) :
          lat \in Lats, lng \in Lngs, alt \in Alts}
Points == LiteralPoints \cup InstancePoints

\* LatLng.toJSON() and LatLngAltitude.toJSON()
ToJSON(point) ==
  IF point.kind = "LatLngAltitude"
    THEN LiteralAlt(point.lat, point.lng, point.altitude)
    ELSE Literal(point.lat, point.lng)

\* { altitude: 0, ...obj }: a new object; an own property of obj replaces
\* the default, whatever its value
SpreadOverAltitude0(obj) ==
  LiteralAlt(obj.lat, obj.lng,
             IF obj.hasAltitude THEN obj.altitude ELSE Num(0))

\* toLatLngAltitudeLiteral
toLatLngAltitudeLiteral(point) ==
  IF point.kind \in {"LatLng", "LatLngAltitude"}
    THEN SpreadOverAltitude0(ToJSON(point))
    ELSE SpreadOverAltitude0(point)

\* this.anchor, read through the reference
Anchor == points[anchorRef]

\* the fields of the anchor a draw callback passes on
AnchorFields(a) == [lat |-> a.lat, lng |-> a.lng, altitude |-> a.altitude]

\* ------------------------------------------------------ the draw callbacks
\* a projection computed from the anchor and orientation of construction
ProjectionAtConstruction(t) ==
  [transform |-> t,
   anchor |-> AnchorFields(LiteralAlt(0, 0, Num(0))),
   rotation |-> <<0, 0, 0>>]

\* the projection a draw callback computes from the host transform t:
\*   onDraw:  transformer.fromLatLngAltitude(anchor fields, rotationArray)
\*   _render: Compose(scale, RotationYawPitchRoll(rotationArray[1],
\*            -rotationArray[0], rotationArray[2]), anchor) * matrix
Projection(t) ==
  IF adapter = "google"
    THEN [transform |-> t, anchor |-> AnchorFields(Anchor),
          rotation |-> rotationArray]
    ELSE [transform |-> t, anchor |-> AnchorFields(points.own),
          rotation |-> <<rotationArray[2], -rotationArray[1],
                         rotationArray[3]>>]

ProjectionCalls == {"copyFromProjection", "freezeProjectionMatrix"}
RepaintCalls == {"requestRedraw", "triggerRepaint"}

\* onDraw without the wipeCaches that follows the render
GoogleDrawCallsNoPostWipe(mode) ==
  <<"copyFromProjection", "wipeCaches", "render", "applyDepthCullingState">>
  \o (IF mode = "always" THEN <<"requestRedraw">> ELSE <<>>)

\* onDraw with the animation-mode test inverted
GoogleDrawCallsOnDemand(mode) ==
  <<"copyFromProjection", "wipeCaches", "render", "wipeCaches",
    "applyDepthCullingState">>
  \o (IF mode = "ondemand" THEN <<"requestRedraw">> ELSE <<>>)

\* onDraw requesting a redraw whatever the animation mode
GoogleDrawCallsAlwaysRedraw(mode) ==
  <<"copyFromProjection", "wipeCaches", "render", "wipeCaches",
    "applyDepthCullingState", "requestRedraw">>

\* the calls onDraw makes once its guard has passed, in source order
GoogleDrawCalls(mode) ==
  <<"copyFromProjection", "wipeCaches", "render", "wipeCaches",
    "applyDepthCullingState">>
  \o (IF mode = "always" THEN <<"requestRedraw">> ELSE <<>>)

\* the calls _render makes once its guard has passed, in source order
MapboxDrawCalls ==
  <<"freezeProjectionMatrix", "render", "wipeCaches", "triggerRepaint">>

\* engine.wipeCaches(true) on the frame state fs; fs.wipeThrows says that
\* the call raises an error in this frame
WipeCaches(fs, e) ==
  IF fs.wipeThrows
    THEN [fs EXCEPT !.threw = TRUE]
    ELSE [fs EXCEPT !.log = Append(@, "wipeCaches"), !.E[e].cache = "wiped"]

\* MapBoxWebGLCustomLayer._resetState: try { wipeCaches } catch { ignore }
_resetState(fs, e) ==
  IF WipeCaches(fs, e).threw
    THEN [fs EXCEPT !.log = Append(@, "wipeCaches")]
    ELSE WipeCaches(fs, e)

\* one call of a draw callback, on the frame state fs
\*   fs.E, fs.C : engines and cameras as changed so far by this callback
DrawCall(call, fs, t, e, s, c, S) ==
  LET logged == [fs EXCEPT !.log = Append(@, call)] IN
  CASE call \in ProjectionCalls ->
         [logged EXCEPT !.C[c].proj = Projection(t)]
    [] call = "wipeCaches" ->
         IF adapter = "mapbox" THEN _resetState(fs, e) ELSE WipeCaches(fs, e)
    [] call = "render" ->
         IF S[s].activeCamera = 0
           THEN [fs EXCEPT !.threw = TRUE]
           ELSE [logged EXCEPT !.rendered = s,
                               !.renderProj = fs.C[S[s].activeCamera].proj,
                               !.E[e].cache = "scene"]
    [] call \in RepaintCalls ->
         [logged EXCEPT !.redraws = @ + 1]
    [] OTHER -> logged

\* run the calls in order; an exception ends the callback
RECURSIVE RunCalls(_, _, _, _, _, _, _)
RunCalls(calls, fs, t, e, s, c, S) ==
  IF calls = <<>> \/ fs.threw THEN fs
  ELSE RunCalls(Tail(calls), DrawCall(Head(calls), fs, t, e, s, c, S),
                t, e, s, c, S)

\* the frame state at the start of a draw callback
StartFrameWhen(t, wipeThrows) ==
  [log |-> <<>>, threw |-> FALSE, rendered |-> 0, transform |-> t,
   renderProj |-> NoProjection, redraws |-> 0, wipeThrows |-> wipeThrows,
   E |-> engines, C |-> cameras]

StartFrame(t) == StartFrameWhen(t, FALSE)

\* the result of a frame: heap changes, host repaint flag, record of the call
EndFrame(fs) ==
  /\ engines' = fs.E
  /\ cameras' = fs.C
  /\ redrawPending' = (fs.redraws > 0)
  /\ lastDraw' = [log |-> fs.log, threw |-> fs.threw, rendered |-> fs.rendered,
                  transform |-> fs.transform, renderProj |-> fs.renderProj,
                  redraws |-> fs.redraws, wipeThrows |-> fs.wipeThrows]
  /\ lastEvent' = "draw"
  /\ UNCHANGED <<ownerVars, adapter, optCamera, animationMode, _engine, _scene, _camera,
                 _map, scenes, hostState, hostCtx>>

\* BabylonJSWebGLOverlayView.onDraw
\*   typeof this._engine === undefined is never true, so an undefined
\*   _engine reaches this._engine.isDisposed and raises a TypeError
onDrawWhen(wipeThrows) ==
  /\ adapter = "google"
  /\ hostState = "Attached"
  /\ \E t \in Transforms :
       LET fs0 == StartFrameWhen(t, wipeThrows) IN
       IF _engine = 0
         THEN EndFrame([fs0 EXCEPT !.threw = TRUE])
       ELSE IF \/ engines[_engine].disposed
               \/ scenes[_scene].disposed
               \/ scenes[_scene].activeCamera = 0
         THEN EndFrame(RunCalls(<<"requestRedraw">>, fs0, t,
                                _engine, _scene, _camera, scenes))
       ELSE EndFrame(RunCalls(GoogleDrawCalls(animationMode), fs0, t,
                              _engine, _scene, _camera, scenes))

\* a draw in which engine.wipeCaches works
onDraw == onDrawWhen(FALSE)

\* MapBoxWebGLCustomLayer._render
_renderWhen(wipeThrows) ==
  /\ adapter = "mapbox"
  /\ hostState = "Attached"
  /\ \E t \in Transforms :
       LET fs0 == StartFrameWhen(t, wipeThrows) IN
       IF _camera = 0 \/ _scene = 0 \/ ~_map
         THEN EndFrame(fs0)
         ELSE EndFrame(RunCalls(MapboxDrawCalls, fs0, t,
                                _engine, _scene, _camera, scenes))

_render == _renderWhen(FALSE)

\* draws in which engine.wipeCaches may raise an error
onDrawWipe == \E wipeThrows \in BOOLEAN : onDrawWhen(wipeThrows)

_renderWipe == \E wipeThrows \in BOOLEAN : _renderWhen(wipeThrows)

\* ------------------------------------------------------------- lifecycle
\* context acquisition that disposes the old scene but not the old engine
DisposeExistingSceneOnly(E, S, e, s) ==
  [E |-> E, S |-> IF s # 0 THEN SceneDispose(S, s) ELSE S]

\* context acquisition that disposes nothing
DisposeExistingNothing(E, S, e, s) ==
  [E |-> E, S |-> S]

\* "dispose existing engine and scene": the heap after the two guarded
\* dispose calls that open onContextRestored and _onAdd
DisposeExisting(E, S, e, s) ==
  LET S1 == IF s # 0 THEN SceneDispose(S, s) ELSE S IN
  [E |-> IF e # 0 THEN EngineDispose(E, e) ELSE E,
   S |-> IF e # 0 THEN EngineDisposeScenes(S1, e) ELSE S1]

\* this._camera ?? this._createCamera(): the camera kept or created for the
\* scene s, as [camera, C, S]; _createCamera constructs a FreeCamera in
\* this._scene, which makes it the active camera of that scene
CameraOrCreate(cam, C, S, s) ==
  IF cam # 0
    THEN [camera |-> cam, C |-> C, S |-> S]
    ELSE [camera |-> Len(C) + 1,
          C |-> Append(C, NewCamera(s)),
          S |-> [S EXCEPT ![s].activeCamera = Len(C) + 1]]

\* the body shared by onContextRestored and _onAdd: dispose, new Engine,
\* new Scene, camera
AcquireContext ==
  LET d == DisposeExisting(engines, scenes, _engine, _scene)
      e == Len(d.E) + 1
      s == Len(d.S) + 1
      k == CameraOrCreate(_camera, cameras, Append(d.S, NewScene(e)), s)
  IN /\ engines' = Append(d.E, NewEngine)
     /\ scenes' = k.S
     /\ cameras' = k.C
     /\ _engine' = e
     /\ _scene' = s
     /\ _camera' = k.camera

\* BabylonJSWebGLOverlayView.setMap: the host attaches the overlay and
\* calls onAdd, which is empty
setMap ==
  /\ adapter = "google"
  /\ hostState # "Attached"
  /\ hostState' = "Attached"
  /\ lastEvent' = "onAdd"
  /\ UNCHANGED <<ownerVars, adapter, optCamera, animationMode, _engine, _scene, _camera,
                 _map, engines, scenes, cameras, hostCtx, redrawPending,
                 lastDraw>>

\* BabylonJSWebGLOverlayView.onContextRestored
onContextRestored ==
  /\ adapter = "google"
  /\ hostState = "Attached"
  /\ Len(engines) < MaxContexts
  /\ AcquireContext
  /\ hostCtx' = TRUE
  /\ lastEvent' = "contextAcquired"
  /\ UNCHANGED <<ownerVars, adapter, optCamera, animationMode, _map, hostState,
                 redrawPending, lastDraw>>

\* onContextLost that only tells the host side, disposing nothing
onContextLostNoDispose ==
  /\ adapter = "google"
  /\ hostState = "Attached"
  /\ hostCtx
  /\ hostCtx' = FALSE
  /\ lastEvent' = "contextLost"
  /\ UNCHANGED <<ownerVars, adapter, optCamera, animationMode, _engine, _scene, _camera,
                 _map, engines, scenes, cameras, hostState, redrawPending,
                 lastDraw>>

\* BabylonJSWebGLOverlayView.onContextLost: this._engine?.dispose()
onContextLost ==
  /\ adapter = "google"
  /\ hostState = "Attached"
  /\ hostCtx
  /\ engines' = IF _engine # 0 THEN EngineDispose(engines, _engine)
                               ELSE engines
  /\ scenes' = IF _engine # 0 THEN EngineDisposeScenes(scenes, _engine)
                              ELSE scenes
  /\ hostCtx' = FALSE
  /\ lastEvent' = "contextLost"
  /\ UNCHANGED <<ownerVars, adapter, optCamera, animationMode, _engine, _scene, _camera,
                 _map, cameras, hostState, redrawPending, lastDraw>>

\* BabylonJSWebGLOverlayView.onRemove: empty; the host stops drawing
onRemove ==
  /\ adapter = "google"
  /\ hostState = "Attached"
  /\ hostState' = "Removed"
  /\ hostCtx' = FALSE
  /\ redrawPending' = FALSE
  /\ lastEvent' = "remove"
  /\ UNCHANGED <<ownerVars, adapter, optCamera, animationMode, _engine, _scene, _camera,
                 _map, engines, scenes, cameras, lastDraw>>

\* MapBoxWebGLCustomLayer: the "style.load" handler adds a custom layer and
\* the host calls its onAdd, which is _onAdd
_onAdd ==
  /\ adapter = "mapbox"
  /\ Len(engines) < MaxContexts
  /\ AcquireContext
  /\ _map' = TRUE
  /\ hostState' = "Attached"
  /\ hostCtx' = TRUE
  /\ lastEvent' = "contextAcquired"
  /\ UNCHANGED <<ownerVars, adapter, optCamera, animationMode, redrawPending, lastDraw>>

\* MapBoxWebGLCustomLayer.getCustomLayer: the layer has no onRemove, so the
\* host removing the layer runs no code of the overlay
removeLayer ==
  /\ adapter = "mapbox"
  /\ hostState = "Attached"
  /\ hostState' = "Removed"
  /\ hostCtx' = FALSE
  /\ redrawPending' = FALSE
  /\ lastEvent' = "remove"
  /\ UNCHANGED <<ownerVars, adapter, optCamera, animationMode, _engine, _scene, _camera,
                 _map, engines, scenes, cameras, lastDraw>>

\* ---------------------------------------------------- calls of the owner
\* requestRedraw: overlay.requestRedraw() / this._map.triggerRepaint()
requestRedraw ==
  /\ hostState = "Attached"
  /\ adapter = "mapbox" => _map
  /\ ~redrawPending
  /\ redrawPending' = TRUE
  /\ lastEvent' = "requestRedraw"
  /\ UNCHANGED <<ownerVars, adapter, optCamera, animationMode, _engine, _scene, _camera,
                 _map, engines, scenes, cameras, hostState, hostCtx, lastDraw>>

\* public animationMode field, assigned by the owner
setAnimationMode ==
  /\ adapter = "google"
  /\ \E m \in AnimationModes \ {animationMode} : animationMode' = m
  /\ lastEvent' = "setAnimationMode"
  /\ UNCHANGED <<ownerVars, adapter, optCamera, _engine, _scene, _camera, _map, engines,
                 scenes, cameras, hostState, hostCtx, redrawPending, lastDraw>>

\* the owner makes the overlay's camera the active camera of the overlay's
\* scene, through the scene and camera getters
setActiveCamera ==
  /\ _scene # 0 /\ _camera # 0
  /\ ~scenes[_scene].disposed
  /\ scenes[_scene].activeCamera # _camera
  /\ scenes' = [scenes EXCEPT ![_scene].activeCamera = _camera]
  /\ lastEvent' = "setActiveCamera"
  /\ UNCHANGED <<ownerVars, adapter, optCamera, animationMode, _engine, _scene, _camera,
                 _map, engines, cameras, hostState, hostCtx, redrawPending,
                 lastDraw>>

\* waitForSceneInit / checkScene: resolve() when this._scene is set,
\* otherwise setTimeout(checkScene, 100)
checkScene(w) ==
  IF _scene # 0
    THEN [w EXCEPT !.state = "resolved", !.resolves = @ + 1, !.timer = FALSE]
    ELSE [w EXCEPT !.timer = TRUE,
                   !.polls = IF @ < MaxPolls THEN @ + 1 ELSE @]

NewWait == [state |-> "pending", timer |-> FALSE, polls |-> 0, resolves |-> 0,
            sceneAtStart |-> _scene # 0]

\* waitForSceneInit that defers its first check to a timer
waitForSceneInitDeferred ==
  /\ Len(waits) < MaxWaits
  /\ waits' = Append(waits, [NewWait EXCEPT !.timer = TRUE, !.polls = 1])
  /\ lastEvent' = "waitForSceneInit"
  /\ UNCHANGED <<utilVars, orientVars, anchorVars, adapter, optCamera, animationMode,
                 _engine, _scene, _camera, _map, engines, scenes, cameras,
                 hostState, hostCtx, redrawPending, lastDraw>>

\* waitForSceneInit(): the promise executor runs checkScene() at once
waitForSceneInit ==
  /\ Len(waits) < MaxWaits
  /\ waits' = Append(waits, checkScene(NewWait))
  /\ lastEvent' = "waitForSceneInit"
  /\ UNCHANGED <<utilVars, orientVars, anchorVars, adapter, optCamera, animationMode,
                 _engine, _scene, _camera, _map, engines, scenes, cameras,
                 hostState, hostCtx, redrawPending, lastDraw>>

\* a timer that resolves without looking at this._scene
checkSceneTimerBlind(i) ==
  /\ i \in DOMAIN waits
  /\ waits[i].timer
  /\ waits' = [waits EXCEPT ![i].state = "resolved", ![i].resolves = @ + 1,
                            ![i].timer = FALSE]
  /\ lastEvent' = "checkScene"
  /\ UNCHANGED <<utilVars, orientVars, anchorVars, adapter, optCamera, animationMode,
                 _engine, _scene, _camera, _map, engines, scenes, cameras,
                 hostState, hostCtx, redrawPending, lastDraw>>

\* the timer of wait i fires: checkScene() runs again
checkSceneTimer(i) ==
  /\ i \in DOMAIN waits
  /\ waits[i].timer
  /\ waits' = [waits EXCEPT ![i] = checkScene(@)]
  /\ lastEvent' = "checkScene"
  /\ UNCHANGED <<utilVars, orientVars, anchorVars, adapter, optCamera, animationMode,
                 _engine, _scene, _camera, _map, engines, scenes, cameras,
                 hostState, hostCtx, redrawPending, lastDraw>>

timerFires == \E i \in 1..MaxWaits : checkSceneTimer(i)

\* setUpAxis(axis)
SetUpAxisTo(axis) ==
  /\ adapter \in Adapters
  /\ rotationInverse' = RotationInverseOf(UpAxisQuaternion(axis))
  /\ rotationArray' = RotationArrayOf(UpAxisQuaternion(axis), adapter)
  /\ lastAxis' = [axis |-> axis, warned |-> Warns(axis), prev |-> Orientation]
  /\ lastEvent' = "setUpAxis"
  /\ UNCHANGED <<utilVars, waitVars, anchorVars, adapter, optCamera, animationMode,
                 _engine, _scene, _camera, _map, engines, scenes, cameras,
                 hostState, hostCtx, redrawPending, lastDraw>>

setUpAxis == \E axis \in AxisInputs : SetUpAxisTo(axis)

\* setAnchor that stores the object it was given
SetAnchorByReference(point) ==
  /\ adapter = "google"
  /\ points' = [points EXCEPT !.arg = point]
  /\ anchorRef' = "arg"
  /\ lastEvent' = "setAnchor"
  /\ UNCHANGED <<utilVars, waitVars, orientVars, adapter, optCamera, animationMode,
                 _engine, _scene, _camera, _map, engines, scenes, cameras,
                 hostState, hostCtx, redrawPending, lastDraw>>

\* setAnchor(anchor): this.anchor = toLatLngAltitudeLiteral(anchor)
SetAnchorTo(point) ==
  /\ adapter = "google"
  /\ points' = [arg |-> point, own |-> toLatLngAltitudeLiteral(point)]
  /\ anchorRef' = "own"
  /\ lastEvent' = "setAnchor"
  /\ UNCHANGED <<utilVars, waitVars, orientVars, adapter, optCamera, animationMode,
                 _engine, _scene, _camera, _map, engines, scenes, cameras,
                 hostState, hostCtx, redrawPending, lastDraw>>

setAnchor == \E point \in Points : SetAnchorTo(point)

\* the owner changes the object literal it passed to setAnchor
mutatePoint ==
  /\ adapter = "google"
  /\ points.arg.kind = "literal"
  /\ \E point \in LiteralPoints \ {points.arg} :
       points' = [points EXCEPT !.arg = point]
  /\ lastEvent' = "mutatePoint"
  /\ UNCHANGED <<utilVars, waitVars, orientVars, anchorRef, adapter, optCamera,
                 animationMode, _engine, _scene, _camera, _map, engines,
                 scenes, cameras, hostState, hostCtx, redrawPending, lastDraw>>

\* ---------------------------------------------------------------- initMap
\* element ids: 0 stands for the default argument "map"
ElementIds == 0..MaxIds

\* no initMap call yet, on a page whose elements have the ids in E
NoMapInit(E) ==
  [elements |-> E, called |-> FALSE, id |-> 0, outcome |-> "none",
   names |-> -1, steps |-> <<>>]

\* what initMap does when document.getElementById finds nothing:
\*   google-maps/util.ts throws an Error whose message holds the id,
\*   the copy in the Mapbox source returns undefined
MissingElement(m, id) ==
  IF adapter = "google"
    THEN [m EXCEPT !.outcome = "threw", !.names = id]
    ELSE [m EXCEPT !.outcome = "undefined"]

\* initMap(apiOptions, mapOptions, id); loads: importLibrary("maps") succeeds
InitMapResult(m, id, loads) ==
  LET call == [m EXCEPT !.called = TRUE, !.id = id, !.outcome = "none",
                        !.names = -1, !.steps = <<>>] IN
  IF id \notin m.elements THEN MissingElement(call, id)
  ELSE IF ~loads
    THEN [call EXCEPT !.steps = <<"setOptions", "importLibrary">>,
                      !.outcome = "rejected"]
  ELSE [call EXCEPT !.steps = <<"setOptions", "importLibrary", "newMap">>,
                    !.outcome = "map"]

initMap ==
  /\ \E id \in ElementIds, loads \in BOOLEAN :
       mapInit' = InitMapResult(mapInit, id, loads)
  /\ lastEvent' = "initMap"
  /\ UNCHANGED <<overlayVars, waitVars, orientVars, anchorVars, pickVars, polylineVars, construction,
                 mesh, gl, geo, routeVars>>

\* ------------------------------------------------------------ mesh fix-up
\* A mesh: what getIndices() and getPositionData() return (has = FALSE: null)
\* and its normals; orig is the mesh as it was given, fixes counts the calls
Buffer(has, buf) == [has |-> has, buf |-> buf]

Vertices == {1, 2, 3}

\* triangles over the three vertices, each a triple of vertex indices
Triangles ==
  {t \in [1..3 -> Vertices] : t[1] # t[2] /\ t[2] # t[3] /\ t[1] # t[3]}

RECURSIVE IndexBuffers(_)
IndexBuffers(n) ==
  IF n = 0 THEN {<<>>}
  ELSE IndexBuffers(n - 1)
       \cup {b \o t : b \in IndexBuffers(n - 1), t \in Triangles}

PositionBuffers ==
  {<<<<0, 0, 0>>, <<MaxCoord, 0, 0>>, <<0, MaxCoord, 0>>>>,
   <<<<0, 0, 0>>, <<0, 0, MaxCoord>>, <<0, MaxCoord, 0>>>>}

Minus(a, b) == <<a[1] - b[1], a[2] - b[2], a[3] - b[3]>>
Plus(a, b) == <<a[1] + b[1], a[2] + b[2], a[3] + b[3]>>

\* VertexData.ComputeNormals: the normal of face k is the cross product of
\* its edges p1 - p2 and p3 - p2; lengths are not normalized here
FaceNormal(positions, indices, k) ==
  LET p1 == positions[indices[3 * k - 2]]
      p2 == positions[indices[3 * k - 1]]
      p3 == positions[indices[3 * k]]
  IN Cross(Minus(p1, p2), Minus(p3, p2))

RECURSIVE SumFaceNormals(_, _, _, _)
SumFaceNormals(positions, indices, v, k) ==
  IF k = 0 THEN <<0, 0, 0>>
  ELSE LET rest == SumFaceNormals(positions, indices, v, k - 1) IN
       IF v \in {indices[3 * k - 2], indices[3 * k - 1], indices[3 * k]}
         THEN Plus(rest, FaceNormal(positions, indices, k))
         ELSE rest

\* VertexData.ComputeNormals(positions, indices, normals): for every vertex
\* the sum of the normals of the faces it belongs to
ComputeNormals(positions, indices) ==
  [v \in DOMAIN positions |->
     SumFaceNormals(positions, indices, v, Len(indices) \div 3)]

\* getReversedIndices moving every triangle (a, b, c) to (b, c, a)
GetReversedIndicesRotating(indices) ==
  [i \in DOMAIN indices |->
     IF i % 3 = 0 THEN indices[i - 2] ELSE indices[i + 1]]

\* getReversedIndices: on the copy that getIndices(false, true) returns, the
\* second and third index of every triangle are swapped
GetReversedIndices(indices) ==
  [i \in DOMAIN indices |->
     CASE i % 3 = 2 -> indices[i + 1]
       [] i % 3 = 0 -> indices[i - 1]
       [] OTHER -> indices[i]]

\* fixMesh computing the normals from the indices the mesh had
FixMeshStaleNormals(m) ==
  IF ~m.indices.has \/ ~m.positions.has THEN m
  ELSE [m EXCEPT !.indices = Buffer(TRUE, GetReversedIndices(m.indices.buf)),
                 !.normals = ComputeNormals(m.positions.buf, m.indices.buf)]

\* fixMesh (google-maps/util.ts)
FixMesh(m) ==
  IF ~m.indices.has \/ ~m.positions.has THEN m
  ELSE LET indices == GetReversedIndices(m.indices.buf)
           positions == m.positions.buf
       IN [m EXCEPT !.positions = Buffer(TRUE, positions),
                    !.indices = Buffer(TRUE, indices),
                    !.normals = ComputeNormals(positions, indices)]

\* reverseMeshIndices (copy of the helpers in the Mapbox source)
ReverseMeshIndices(m) ==
  IF ~m.indices.has THEN m
  ELSE [m EXCEPT !.indices = Buffer(TRUE, GetReversedIndices(m.indices.buf))]

NewMesh(indices, positions, normals) ==
  [indices |-> indices, positions |-> positions, normals |-> normals,
   orig |-> [indices |-> indices, positions |-> positions,
             normals |-> normals],
   fixes |-> 0]

NoMesh == NewMesh(Buffer(FALSE, <<>>), Buffer(FALSE, <<>>), <<>>)

\* the meshes handed to the fix-up: with or without indices, with or without
\* positions, with normals that fit their indices or without normals
MeshInputs ==
  LET I == {Buffer(FALSE, <<>>)}
           \cup {Buffer(TRUE, b) : b \in IndexBuffers(MaxTriangles)}
      P == {Buffer(FALSE, <<>>)} \cup {Buffer(TRUE, b) : b \in PositionBuffers}
  IN {NewMesh(i, q, <<>>) : i \in I, q \in P}
     \cup {NewMesh(i, q, ComputeNormals(q.buf, i.buf)) :
             i \in {j \in I : j.has}, q \in {r \in P : r.has}}

fixMesh ==
  /\ adapter = "google"
  /\ mesh.fixes < MaxFixes
  /\ mesh' = [FixMesh(mesh) EXCEPT !.fixes = @ + 1]
  /\ lastEvent' = "fixMesh"
  /\ UNCHANGED <<overlayVars, waitVars, orientVars, anchorVars, pickVars, polylineVars, construction,
                 mapInit, gl, geo, routeVars>>

reverseMeshIndices ==
  /\ adapter = "mapbox"
  /\ mesh.fixes < MaxFixes
  /\ mesh' = [ReverseMeshIndices(mesh) EXCEPT !.fixes = @ + 1]
  /\ lastEvent' = "reverseMeshIndices"
  /\ UNCHANGED <<overlayVars, waitVars, orientVars, anchorVars, pickVars, polylineVars, construction,
                 mapInit, gl, geo, routeVars>>

\* ------------------------------------------------------- resetEngineState
\* The state of the GL context.  Framebuffers and textures are numbered,
\* 0 is null (the default framebuffer, no texture).
Units == 1..MaxUnits

CanvasSize == <<MaxCoord, MaxCoord + 1>>

FullCanvas == <<0, 0, CanvasSize[1], CanvasSize[2]>>

\* what the calls of resetEngineState set, field by field
BaselineGL ==
  [blend |-> FALSE, cullFace |-> FALSE, scissorTest |-> FALSE,
   stencilTest |-> FALSE, polygonOffsetFill |-> FALSE,
   depthTest |-> TRUE, depthFunc |-> "LEQUAL", depthMask |-> TRUE,
   colorMask |-> <<TRUE, TRUE, TRUE, TRUE>>,
   frontFace |-> "CCW", cullFaceMode |-> "BACK",
   framebuffer |-> 0,
   viewport |-> FullCanvas, scissor |-> FullCanvas,
   blendEquation |-> <<"FUNC_ADD", "FUNC_ADD">>,
   blendFunc |-> <<"ONE", "ZERO", "ONE", "ZERO">>,
   texture2D |-> [u \in Units |-> 0],
   textureCubeMap |-> [u \in Units |-> 0]]

\* states a host may leave behind: every group of settings is either as in
\* BaselineGL or changed, independently of the others
CapabilityInputs ==
  {[blend |-> b = 1, cullFace |-> b = 2, scissorTest |-> b = 3,
    stencilTest |-> b = 4, polygonOffsetFill |-> b = 5] : b \in 0..5}
  \cup {[blend |-> TRUE, cullFace |-> TRUE, scissorTest |-> TRUE,
          stencilTest |-> TRUE, polygonOffsetFill |-> TRUE]}

HostGLStates ==
  {[BaselineGL EXCEPT
      !.blend = c.blend, !.cullFace = c.cullFace,
      !.scissorTest = c.scissorTest, !.stencilTest = c.stencilTest,
      !.polygonOffsetFill = c.polygonOffsetFill,
      !.depthTest = ~d, !.depthFunc = IF d THEN "LESS" ELSE "LEQUAL",
      !.depthMask = ~d,
      !.colorMask = <<TRUE, TRUE, TRUE, ~m>>,
      !.frontFace = IF f THEN "CW" ELSE "CCW",
      !.cullFaceMode = IF f THEN "FRONT" ELSE "BACK",
      !.framebuffer = fb,
      !.viewport = IF r THEN <<0, 0, 1, 1>> ELSE FullCanvas,
      !.scissor = IF r THEN <<1, 1, 1, 1>> ELSE FullCanvas,
      !.blendEquation = IF q THEN <<"FUNC_SUBTRACT", "FUNC_ADD">>
                             ELSE <<"FUNC_ADD", "FUNC_ADD">>,
      !.blendFunc = IF q THEN <<"SRC_ALPHA", "ONE_MINUS_SRC_ALPHA", "ONE", "ONE">>
                         ELSE <<"ONE", "ZERO", "ONE", "ZERO">>,
      !.texture2D = t, !.textureCubeMap = t] :
     c \in CapabilityInputs, d \in BOOLEAN, m \in BOOLEAN, f \in BOOLEAN,
     fb \in {0, 1}, r \in BOOLEAN, q \in BOOLEAN,
     t \in [Units -> {0, 1}]}

\* the engine as far as resetEngineState reads and writes it:
\*   currentFramebuffer  engine._currentFramebuffer, the framebuffer the
\*                       engine believes to be bound
\*   hasCanvas           engine.getRenderingCanvas() is not null
GLEngine(fb) ==
  [currentFramebuffer |-> fb, hasCanvas |-> TRUE, cache |-> "scene"]

\* ThinEngine._bindUnboundFramebuffer(null): binds only when the engine's
\* record of the bound framebuffer differs
BindUnboundFramebufferNull(g) ==
  IF g.engine.currentFramebuffer # 0
    THEN [g EXCEPT !.ctx.framebuffer = 0, !.engine.currentFramebuffer = 0]
    ELSE g

\* engine.restoreDefaultFramebuffer(), no render target being current
RestoreDefaultFramebuffer(g) ==
  [BindUnboundFramebufferNull(g) EXCEPT !.engine.cache = "wiped"]

\* resetEngineState(engine), in source order
ResetEngineState(g) ==
  LET caps == [g EXCEPT
                 !.ctx.blend = FALSE, !.ctx.cullFace = FALSE,
                 !.ctx.scissorTest = FALSE, !.ctx.stencilTest = FALSE,
                 !.ctx.polygonOffsetFill = FALSE,
                 !.ctx.depthTest = TRUE, !.ctx.depthFunc = "LEQUAL",
                 !.ctx.depthMask = TRUE,
                 !.ctx.colorMask = <<TRUE, TRUE, TRUE, TRUE>>,
                 !.ctx.frontFace = "CCW", !.ctx.cullFaceMode = "BACK",
                 !.engine.currentFramebuffer = 0]
      fb == RestoreDefaultFramebuffer(caps)
      rects == IF fb.engine.hasCanvas
                 THEN [fb EXCEPT !.ctx.viewport = FullCanvas,
                                 !.ctx.scissor = FullCanvas]
                 ELSE fb
  IN [rects EXCEPT
        !.ctx.blendEquation = <<"FUNC_ADD", "FUNC_ADD">>,
        !.ctx.blendFunc = <<"ONE", "ZERO", "ONE", "ZERO">>,
        !.ctx.texture2D = [u \in Units |-> 0],
        !.ctx.textureCubeMap = [u \in Units |-> 0],
        !.engine.cache = "wiped",
        !.reset = TRUE]

NoGL == [ctx |-> BaselineGL, engine |-> GLEngine(0), reset |-> FALSE]

GLInputs ==
  {[ctx |-> c, engine |-> GLEngine(fb), reset |-> FALSE] :
     c \in HostGLStates, fb \in {0, 1}}

resetEngineState ==
  /\ ~gl.reset
  /\ gl' = ResetEngineState(gl)
  /\ lastEvent' = "resetEngineState"
  /\ UNCHANGED <<overlayVars, waitVars, orientVars, anchorVars, pickVars, polylineVars, construction,
                 mapInit, mesh, geo, routeVars>>

\* ------------------------------------------------- coordinate transform
\* Latitudes and longitudes are counted in metres of arc (the angle times
\* EARTH_RADIUS), so that latLngToXY gives x = lng.  The Mercator ordinate
\* and the cosine are taken to first order around the equator and around 60
\* degrees, where cos = 1/2; offsets are a few metres.  Local coordinates
\* are kept doubled, so that the factor 1/2 stays an integer operation.
\* 60 degrees of arc: EARTH_RADIUS * PI / 3
RefLat60 == 6671706

\* EARTH_RADIUS * log(tan(0.25 * PI + 0.5 * PI / 3))
MercatorY60 == 8390352

NearEquator(lat) == 2 * Abs(lat) < RefLat60

\* 2 * cos(Tools.ToRadians(lat))
CosTimes2(lat) == IF NearEquator(lat) THEN 2 ELSE 1

\* EARTH_RADIUS * log(tan(0.25 * PI + 0.5 * Tools.ToRadians(lat)))
MercatorY(lat) ==
  IF NearEquator(lat) THEN lat
  ELSE IF lat > 0 THEN MercatorY60 + 2 * (lat - RefLat60)
  ELSE (-MercatorY60) + 2 * (lat + RefLat60)

latLngToXY(position) == <<position.lng, MercatorY(position.lat)>>

\* latLngToVector3Relative: twice the local vector
latLngToVector3Relative(point, reference) ==
  LET pxy == latLngToXY(point)
      rxy == latLngToXY(reference)
      val == CosTimes2(reference.lat)
  IN [x |-> (pxy[1] - rxy[1]) * val,
      y |-> (pxy[2] - rxy[2]) * val,
      z |-> 2 * (point.altitude.val - reference.altitude.val)]

\* vector3ToLatLng, x and z being twice the arguments
vector3ToLatLng(x, z, originLatLng) ==
  LET originLiteral == toLatLngAltitudeLiteral(originLatLng)
  IN Literal(originLiteral.lat + z \div 2,
             originLiteral.lng + x \div CosTimes2(originLiteral.lat))

Offsets == {-MaxCoord, 0, MaxCoord}

References ==
  {LiteralAlt(lat, lng, Num(alt)) :
     lat \in {0, RefLat60}, lng \in Lngs, alt \in Alts}

NoGeo ==
  [point |-> LiteralAlt(0, 0, Num(0)), reference |-> LiteralAlt(0, 0, Num(0)),
   local |-> [x |-> 0, y |-> 0, z |-> 0], back |-> Literal(0, 0),
   again |-> [x |-> 0, y |-> 0, z |-> 0], done |-> FALSE]

GeoInputs ==
  {[NoGeo EXCEPT !.reference = r,
                 !.point = LiteralAlt(r.lat + dlat, r.lng + dlng, Num(alt))] :
     r \in References, dlat \in Offsets, dlng \in Offsets, alt \in Alts}

\* to local coordinates, back with vector3ToLatLng(x, z, reference), and to
\* local coordinates again; the point that comes back has no altitude and
\* goes through toLatLngAltitudeLiteral, as in latLngAltitudeToVector3Ref
roundTrip ==
  /\ ~geo.done
  /\ LET local == latLngToVector3Relative(geo.point, geo.reference)
         back == vector3ToLatLng(local.x, local.z, geo.reference)
     IN geo' = [geo EXCEPT
                  !.local = local, !.back = back,
                  !.again = latLngToVector3Relative(
                              toLatLngAltitudeLiteral(back), geo.reference),
                  !.done = TRUE]
  /\ lastEvent' = "roundTrip"
  /\ UNCHANGED <<overlayVars, waitVars, orientVars, anchorVars, pickVars, polylineVars, construction,
                 mapInit, mesh, gl, routeVars>>

\* ------------------------------------------------------- position on route
\* Routes run along a meridian: a path point is its latitude in metres of
\* arc, computeDistanceBetween is the absolute difference and
\* spherical.interpolate is linear.  Percentages are whole numbers; target
\* distances and returned positions are kept in hundredths, which makes the
\* division by 100 exact.
RoutePoints == {0, MaxCoord}

Paths ==
  UNION {[1..n -> RoutePoints] : n \in 1..MaxPathLen}

Percents == {-50, 0, 50, 100, 150}

Max(a, b) == IF a > b THEN a ELSE b

Min(a, b) == IF a < b THEN a ELSE b

\* getRouteId: first, middle and last point of the overview path
getRouteId(path) ==
  <<path[1], path[Len(path) \div 2 + 1], path[Len(path)]>>

computeDistanceBetween(a, b) == Abs(a - b)

\* the distances list of createRouteCache up to point n (1-based)
RECURSIVE CumulativeDistances(_, _)
CumulativeDistances(path, n) ==
  IF n = 1 THEN <<0>>
  ELSE LET before == CumulativeDistances(path, n - 1)
       IN Append(before,
                 before[n - 1] + computeDistanceBetween(path[n - 1], path[n]))

\* createRouteCache
createRouteCache(path) ==
  LET distances == CumulativeDistances(path, Len(path))
  IN [path |-> path, distances |-> distances,
      totalDistance |-> distances[Len(path)]]

\* totalDistance * percent, a hundred times the target of the source
TargetDistanceUnscaled(cache, percent) == cache.totalDistance * percent * 100

\* totalDistance * (percent / 100), in hundredths
TargetDistance(cache, percent) == cache.totalDistance * percent

\* the binary search moving on where the distance equals the target
RECURSIVE BinarySearchPastEqual(_, _, _, _)
BinarySearchPastEqual(distances, target, low, high) ==
  IF low < high
    THEN LET mid == (low + high) \div 2
         IN IF distances[mid] * 100 <= target
              THEN BinarySearchPastEqual(distances, target, mid + 1, high)
              ELSE BinarySearchPastEqual(distances, target, low, mid)
    ELSE low

\* the binary search of findPositionAtPercentage, on 1-based indices
RECURSIVE BinarySearch(_, _, _, _)
BinarySearch(distances, target, low, high) ==
  IF low < high
    THEN LET mid == (low + high) \div 2
         IN IF distances[mid] * 100 < target
              THEN BinarySearch(distances, target, mid + 1, high)
              ELSE BinarySearch(distances, target, low, mid)
    ELSE low

\* google.maps.geometry.spherical.interpolate(from, to, fraction), with
\* fraction = (target - prevDistance) / segmentLength; in hundredths
Interpolate(from, to, target, prevDistance) ==
  IF to >= from THEN from * 100 + (target - prevDistance * 100)
                ELSE from * 100 - (target - prevDistance * 100)

\* findPositionAtPercentage; the position returned, in hundredths
findPositionAtPercentage(cache, percent) ==
  LET target == TargetDistance(cache, percent)
      low == BinarySearch(cache.distances, target, 1, Len(cache.distances))
  IN IF cache.distances[low] * 100 = target \/ low = 1
       THEN cache.path[low] * 100
       ELSE Interpolate(cache.path[low - 1], cache.path[low], target,
                        cache.distances[low - 1])

\* the cache after a call that builds an entry on every call
RouteCachesRebuilt(caches, path) ==
  [id \in DOMAIN caches \cup {getRouteId(path)} |->
     IF id = getRouteId(path) THEN createRouteCache(path) ELSE caches[id]]

\* routeCaches after getPositionOnRoute: an entry is built on a miss only
RouteCachesAfter(caches, path) ==
  IF getRouteId(path) \in DOMAIN caches
    THEN caches
    ELSE [id \in DOMAIN caches \cup {getRouteId(path)} |->
            IF id = getRouteId(path) THEN createRouteCache(path)
                                     ELSE caches[id]]

EmptyCaches == [id \in {} |-> createRouteCache(<<0>>)]

NoRoute == [called |-> FALSE, path |-> <<0>>, percent |-> 0, result |-> 0,
            created |-> FALSE]

\* the percent getPositionOnRoute works with
Clamp(percent) ==
  IF percent < 0 \/ percent > 100 THEN Max(0, Min(100, percent))
                                  ELSE percent

\* getPositionOnRoute(route, percent), route.routes[0].overview_path = path
GetPositionOnRoute(path, percent) ==
  LET routeId == getRouteId(path)
      after == RouteCachesAfter(routeCaches, path)
  IN /\ routeId \in DOMAIN routeCaches
        \/ Cardinality(DOMAIN routeCaches) < MaxCached
     /\ routeCaches' = after
     /\ lastRoute' = [called |-> TRUE, path |-> path, percent |-> percent,
                      result |-> findPositionAtPercentage(after[routeId],
                                                          Clamp(percent)),
                      created |-> after # routeCaches]
     /\ lastEvent' = "getPositionOnRoute"
     /\ UNCHANGED <<overlayVars, waitVars, orientVars, anchorVars,
                    pickVars, polylineVars, construction, mapInit, mesh,
                    gl, geo>>

getPositionOnRoute ==
  \E path \in Paths, percent \in Percents : GetPositionOnRoute(path, percent)

\* routes of one point, and routes of MaxPathLen + 1 points that end where
\* they start
RoundTrips ==
  [1..1 -> RoutePoints]
  \cup {path \in [1..(MaxPathLen + 1) -> RoutePoints] :
          path[1] = path[MaxPathLen + 1]}

\* getPositionOnRoute on such routes
getPositionOnRoundTrip ==
  \E path \in RoundTrips, percent \in Percents :
    GetPositionOnRoute(path, percent)

\* ----------------------------------------------------------------- raycast
\* an optional boolean property of an options object
Given(b) == [def |-> TRUE, val |-> b]
Omitted == [def |-> FALSE, val |-> FALSE]
OptionalBooleans == {Omitted, Given(TRUE), Given(FALSE)}

\* const { p = d } = options
OrDefault(p, d) == IF p.def THEN p.val ELSE d

\* the meshes of the scene the picking ray may cross; a ray is given by the
\* meshes it crosses, the lower numbered being the nearer
Meshes == 1..MaxMeshes

\* new Matrix(), and the matrix set from the projection proj by
\* copyFrom(proj).invert()
NoInverse == [set |-> FALSE, inverseOf |-> NoProjection]
InverseOf(proj) == [set |-> TRUE, inverseOf |-> proj]

\* a PickingInfo; new PickingInfo() has hit = false and no picked mesh
PickingInfo(m) == [hit |-> TRUE, pickedMesh |-> m, distance |-> m]
EmptyPickingInfo == [hit |-> FALSE, pickedMesh |-> 0, distance |-> 0]

\* the elements of a set of numbers in ascending order
RECURSIVE Ascending(_)
Ascending(S) ==
  IF S = {} THEN <<>>
  ELSE LET least == CHOOSE x \in S : \A y \in S : x <= y
       IN <<least>> \o Ascending(S \ {least})

\* scene.pickWithRay(ray): the nearest hit, or a PickingInfo that is no hit
PickWithRay(crossed) ==
  IF crossed = {} THEN EmptyPickingInfo
  ELSE PickingInfo(CHOOSE x \in crossed : \A y \in crossed : x <= y)

\* ray.intersectsMeshes(objects): the hits on the objects, nearest first
IntersectsMeshes(crossed, objects) ==
  [i \in 1..Cardinality(crossed \cap objects) |->
     PickingInfo(Ascending(crossed \cap objects)[i])]

\* the arguments of a raycast call
\*   form     "options"   raycast(p, options?)
\*            "predicate" raycast(p, predicate, options?), predicate a function
\*            "array"     raycast(p, objects, options?), objects an array
\*   options  the options argument of that form
RaycastArgs(form, updateMatrix, recursive, objects, crossed) ==
  [form |-> form, options |-> [updateMatrix |-> updateMatrix,
                               recursive |-> recursive],
   objects |-> objects, crossed |-> crossed]

\* options as raycast reads them after its first if: the third argument for
\* an array, otherwise the spread of the second argument with recursive
\* false; the spread of a function has no properties
EffectiveOptions(args) ==
  CASE args.form = "array" -> args.options
    [] args.form = "options" -> [args.options EXCEPT !.recursive = Given(FALSE)]
    [] OTHER -> [updateMatrix |-> Omitted, recursive |-> Given(FALSE)]

NoPick == [called |-> FALSE, threw |-> FALSE,
           args |-> RaycastArgs("options", Omitted, Omitted, {}, {}),
           result |-> <<>>]

\* BabylonJSWebGLOverlayView.raycast; this._scene and this._camera are
\* undefined until a context is acquired, and reading them raises a TypeError
Raycast(args) ==
  LET options == EffectiveOptions(args)
      updateMatrix == OrDefault(options.updateMatrix, TRUE)
      recursive == OrDefault(options.recursive, FALSE)
  IN IF _scene = 0 \/ _camera = 0
       THEN /\ lastPick' = [called |-> TRUE, threw |-> TRUE, args |-> args,
                            result |-> <<>>]
            /\ UNCHANGED projectionMatrixInverse
       ELSE /\ projectionMatrixInverse' =
                 IF updateMatrix THEN InverseOf(cameras[_camera].proj)
                                 ELSE projectionMatrixInverse
            /\ lastPick' =
                 [called |-> TRUE, threw |-> FALSE, args |-> args,
                  result |-> IF recursive
                               THEN IntersectsMeshes(args.crossed, args.objects)
                               ELSE <<PickWithRay(args.crossed)>>]

RaycastInputs ==
  {RaycastArgs(form, u, r, objects, crossed) :
     form \in {"options", "predicate", "array"},
     u \in OptionalBooleans, r \in {Omitted, Given(TRUE)},
     objects \in {Meshes}, crossed \in {{}, {MaxMeshes}, Meshes}}

raycast ==
  /\ adapter = "google"
  /\ \E args \in RaycastInputs :
       /\ args.form # "array" => args.options.recursive = Omitted
       /\ Raycast(args)
  /\ lastEvent' = "raycast"
  /\ UNCHANGED <<overlayVars, waitVars, orientVars, anchorVars, construction,
                 mapInit, mesh, gl, geo, routeVars, polylineVars>>

\* -------------------------------------------------------- drawn polylines
\* let polylines: undefined until renderCustomRoute assigns an array; a
\* Polyline is the index of its entry in polylineMap
NoPolylines == [def |-> FALSE, list |-> <<>>]

\* renderCustomRoute: polylines = [], then one new google.maps.Polyline with
\* map set for every step of every leg, pushed onto polylines
RenderCustomRoute(steps) ==
  /\ polylineMap' = polylineMap \o [i \in 1..steps |-> TRUE]
  /\ polylines' = [def |-> TRUE,
                   list |-> [i \in 1..steps |-> Len(polylineMap) + i]]

\* drawRoute(map, directions); directions may be null
drawRoute ==
  /\ \E directions \in 0..MaxSteps :
       IF directions = 0
         THEN UNCHANGED polylineVars
         ELSE /\ Len(polylineMap) + directions <= MaxPolylines
              /\ RenderCustomRoute(directions)
  /\ lastEvent' = "drawRoute"
  /\ UNCHANGED <<overlayVars, waitVars, orientVars, anchorVars, construction,
                 mapInit, mesh, gl, geo, routeVars, pickVars>>

\* deleteCurrentRoute
deleteCurrentRoute ==
  /\ IF ~polylines.def
       THEN UNCHANGED polylineVars
       ELSE /\ polylineMap' =
                 [i \in DOMAIN polylineMap |->
                    IF \E k \in DOMAIN polylines.list : polylines.list[k] = i
                      THEN FALSE ELSE polylineMap[i]]
            /\ polylines' = [polylines EXCEPT !.list = <<>>]
  /\ lastEvent' = "deleteCurrentRoute"
  /\ UNCHANGED <<overlayVars, waitVars, orientVars, anchorVars, construction,
                 mapInit, mesh, gl, geo, routeVars, pickVars>>

\* ------------------------------------------------------------ construction
\* the state after the constructor: the Google overlay takes options.camera
\* as this._camera and attaches itself when options.map is given; the Mapbox
\* layer registers its "style.load" handler and leaves _camera undefined
InitOverlay ==
  /\ adapter \in Adapters
  /\ optCamera \in {0, 1}
  /\ cameras = IF optCamera = 1 THEN <<NewCamera(0)>> ELSE <<>>
  /\ animationMode \in IF adapter = "google" THEN AnimationModes ELSE {"none"}
  /\ _camera = IF adapter = "google" THEN optCamera ELSE 0
  /\ _engine = 0
  /\ _scene = 0
  /\ _map = FALSE
  /\ engines = <<>>
  /\ scenes = <<>>
  /\ hostState \in IF adapter = "google" THEN {"Unattached", "Attached"}
                                          ELSE {"Unattached"}
  /\ hostCtx = FALSE
  /\ redrawPending = FALSE
  /\ lastEvent = "constructor"
  /\ lastDraw = NoDraw
  /\ waits = <<>>

\* the options object given to the constructor: anchor and upAxis may be
\* omitted; altitude is an option of the Mapbox layer only
Options(anchorGiven, anchor, altitude, upAxisGiven, upAxis) ==
  [anchorGiven |-> anchorGiven, anchor |-> anchor, altitude |-> altitude,
   upAxisGiven |-> upAxisGiven, upAxis |-> upAxis]

\* constructor: upAxis = "Y" when options.upAxis is undefined
UpAxisOption(opts) ==
  IF opts.upAxisGiven THEN opts.upAxis ELSE AxisName("Y")

\* constructor: anchor = { lat: 0, lng: 0, altitude: 0 } when options.anchor
\* is undefined
AnchorOption(opts) ==
  IF opts.anchorGiven THEN opts.anchor ELSE LiteralAlt(0, 0, Num(0))

\* MapBoxWebGLCustomLayer constructor: MercatorCoordinate.fromLngLat is given
\* options.anchor, not the defaulted anchor; LngLat.convert(undefined) throws
MapboxConstructorThrows(opts) == ~opts.anchorGiven

\* MapBoxWebGLCustomLayer constructor: the anchor of
\* MercatorCoordinate.fromLngLat(options.anchor, options.altitude ?? 0)
MapboxAnchor(opts) ==
  LiteralAlt(opts.anchor.lat, opts.anchor.lng,
             IF opts.altitude.def THEN opts.altitude ELSE Num(0))

\* the orientation and anchor fields after the constructor has run with opts
Constructed(opts) ==
  IF adapter = "mapbox" /\ MapboxConstructorThrows(opts)
    THEN /\ construction = [options |-> opts, threw |-> TRUE]
         /\ rotationInverse = InitialOrientation.inverse
         /\ rotationArray = InitialOrientation.array
         /\ lastAxis = [axis |-> AxisName("Y"), warned |-> FALSE,
                        prev |-> InitialOrientation]
         /\ points = [arg |-> opts.anchor, own |-> LiteralAlt(0, 0, Num(0))]
         /\ anchorRef = "own"
    ELSE /\ construction = [options |-> opts, threw |-> FALSE]
         /\ rotationInverse =
              RotationInverseOf(UpAxisQuaternion(UpAxisOption(opts)))
         /\ rotationArray =
              RotationArrayOf(UpAxisQuaternion(UpAxisOption(opts)), adapter)
         /\ lastAxis = [axis |-> UpAxisOption(opts),
                        warned |-> Warns(UpAxisOption(opts)),
                        prev |-> InitialOrientation]
         /\ points = [arg |-> AnchorOption(opts),
                      own |-> IF adapter = "google"
                                THEN toLatLngAltitudeLiteral(AnchorOption(opts))
                                ELSE MapboxAnchor(opts)]
         /\ anchorRef = "own"

\* the options of the instance whose lifecycle is followed: the anchor
\* (0, 0, 0), omitted for the Google overlay and given to the Mapbox layer,
\* and no upAxis
DefaultOptions ==
  Options(adapter = "mapbox", LiteralAlt(0, 0, Num(0)), Undefined,
          FALSE, AxisName("Y"))

\* the helper modules before any call
InitUtil ==
  /\ mapInit = NoMapInit({0})
  /\ mesh = NoMesh
  /\ gl = NoGL
  /\ geo = NoGeo
  /\ routeCaches = EmptyCaches
  /\ lastRoute = NoRoute
  /\ projectionMatrixInverse = NoInverse
  /\ lastPick = NoPick
  /\ polylines = NoPolylines
  /\ polylineMap = <<>>

Init ==
  /\ InitOverlay
  /\ Constructed(DefaultOptions)
  /\ InitUtil

Next ==
  \/ setMap
  \/ onContextRestored
  \/ onContextLost
  \/ onDraw
  \/ onRemove
  \/ _onAdd
  \/ _render
  \/ removeLayer
  \/ requestRedraw
  \/ setAnimationMode
  \/ setActiveCamera

Spec == Init /\ [][Next]_vars

\* the readiness wait: the lifecycle events, the owner's waitForSceneInit()
\* calls and their timers; the browser fires a timer that is due
NextWait ==
  \/ setMap
  \/ onContextRestored
  \/ onContextLost
  \/ onRemove
  \/ _onAdd
  \/ removeLayer
  \/ waitForSceneInit
  \/ timerFires

SpecWait ==
  /\ Init
  /\ [][NextWait]_vars
  /\ \A i \in 1..MaxWaits : WF_vars(checkSceneTimer(i))

\* the owner's configuration calls
NextConfig ==
  \/ setUpAxis
  \/ setAnchor
  \/ mutatePoint

SpecConfig == Init /\ [][NextConfig]_vars

\* configuration calls between frames; the owner's arguments are taken from
\* the inputs that change the orientation and the anchor
FrameAxes == {AxisName("Z"), AxisVector(<<1, 0, 0>>)}
FramePoints == {Literal(MaxCoord, 0), LatLngAltitude(0, MaxCoord, MaxCoord)}

NextFrame ==
  \/ setMap
  \/ onContextRestored
  \/ _onAdd
  \/ onDraw
  \/ _render
  \/ \E axis \in FrameAxes : SetUpAxisTo(axis)
  \/ \E point \in FramePoints : SetAnchorTo(point)

SpecFrame == Init /\ [][NextFrame]_vars

\* construction with any options, followed by the owner's configuration calls
AnchorOptionInputs ==
  IF adapter = "google"
    THEN {Literal(MaxCoord, 0), LiteralAlt(0, MaxCoord, Num(MaxCoord)),
          LatLng(MaxCoord, MaxCoord)}
    ELSE {Literal(MaxCoord, 0), Literal(0, MaxCoord)}

AltitudeOptionInputs ==
  IF adapter = "google" THEN {Undefined} ELSE {Undefined, Num(MaxCoord)}

OptionInputs ==
  {Options(TRUE, a, h, TRUE, u) :
     a \in AnchorOptionInputs, h \in AltitudeOptionInputs,
     u \in {AxisName("Y"), AxisName("Z")}}
  \cup {Options(TRUE, a, h, FALSE, AxisName("Y")) :
           a \in AnchorOptionInputs, h \in AltitudeOptionInputs}
  \cup {Options(FALSE, LiteralAlt(0, 0, Num(0)), h, TRUE, u) :
           h \in AltitudeOptionInputs, u \in {AxisName("Y"), AxisName("Z")}}
  \cup {Options(FALSE, LiteralAlt(0, 0, Num(0)), h, FALSE, AxisName("Y")) :
           h \in AltitudeOptionInputs}

InitConstruct ==
  /\ InitOverlay
  /\ \E opts \in OptionInputs : Constructed(opts)
  /\ InitUtil

\* a constructor that threw has made no instance to call
NextConstruct ==
  /\ ~construction.threw
  /\ \/ \E axis \in FrameAxes : SetUpAxisTo(axis)
     \/ \E point \in FramePoints : SetAnchorTo(point)

SpecConstruct == InitConstruct /\ [][NextConstruct]_vars

\* initMap on pages with any set of elements
InitInitMap ==
  /\ InitOverlay
  /\ Constructed(DefaultOptions)
  /\ mapInit \in {NoMapInit(E) : E \in SUBSET ElementIds}
  /\ mesh = NoMesh
  /\ gl = NoGL
  /\ geo = NoGeo
  /\ routeCaches = EmptyCaches
  /\ lastRoute = NoRoute
  /\ projectionMatrixInverse = NoInverse
  /\ lastPick = NoPick
  /\ polylines = NoPolylines
  /\ polylineMap = <<>>

NextInitMap == initMap

SpecInitMap == InitInitMap /\ [][NextInitMap]_vars

\* the mesh fix-up applied repeatedly to any mesh
InitMesh ==
  /\ InitOverlay
  /\ optCamera = 0
  /\ hostState = "Unattached"
  /\ animationMode \in {"ondemand", "none"}
  /\ Constructed(DefaultOptions)
  /\ mapInit = NoMapInit({0})
  /\ mesh \in MeshInputs
  /\ gl = NoGL
  /\ geo = NoGeo
  /\ routeCaches = EmptyCaches
  /\ lastRoute = NoRoute
  /\ projectionMatrixInverse = NoInverse
  /\ lastPick = NoPick
  /\ polylines = NoPolylines
  /\ polylineMap = <<>>

NextMesh ==
  \/ fixMesh
  \/ reverseMeshIndices

SpecMesh == InitMesh /\ [][NextMesh]_vars

\* the lifecycle with draws whose cache wipe may fail
NextDrawFail ==
  \/ setMap
  \/ onContextRestored
  \/ onContextLost
  \/ _onAdd
  \/ removeLayer
  \/ setAnimationMode
  \/ onDrawWipe
  \/ _renderWipe

SpecDrawFail == Init /\ [][NextDrawFail]_vars

\* resetEngineState after the host has left any GL state behind
InitReset ==
  /\ InitOverlay
  /\ optCamera = 0
  /\ hostState = "Unattached"
  /\ animationMode \in {"ondemand", "none"}
  /\ Constructed(DefaultOptions)
  /\ mapInit = NoMapInit({0})
  /\ mesh = NoMesh
  /\ gl \in GLInputs
  /\ geo = NoGeo
  /\ routeCaches = EmptyCaches
  /\ lastRoute = NoRoute
  /\ projectionMatrixInverse = NoInverse
  /\ lastPick = NoPick
  /\ polylines = NoPolylines
  /\ polylineMap = <<>>

NextReset == resetEngineState

SpecReset == InitReset /\ [][NextReset]_vars

\* the coordinate round trip on any point near any reference
InitGeo ==
  /\ InitOverlay
  /\ optCamera = 0
  /\ hostState = "Unattached"
  /\ animationMode \in {"ondemand", "none"}
  /\ Constructed(DefaultOptions)
  /\ mapInit = NoMapInit({0})
  /\ mesh = NoMesh
  /\ gl = NoGL
  /\ geo \in GeoInputs
  /\ routeCaches = EmptyCaches
  /\ lastRoute = NoRoute
  /\ projectionMatrixInverse = NoInverse
  /\ lastPick = NoPick
  /\ polylines = NoPolylines
  /\ polylineMap = <<>>

NextGeo == roundTrip

SpecGeo == InitGeo /\ [][NextGeo]_vars

\* any sequence of getPositionOnRoute calls, from an empty cache
InitRoute ==
  /\ InitOverlay
  /\ adapter = "google"
  /\ optCamera = 0
  /\ hostState = "Unattached"
  /\ animationMode = "ondemand"
  /\ Constructed(DefaultOptions)
  /\ InitUtil

NextRoute == getPositionOnRoute

SpecRoute == InitRoute /\ [][NextRoute]_vars

\* any sequence of getPositionOnRoute calls for single points and round trips
NextRoundTrip == getPositionOnRoundTrip

SpecRoundTrip == InitRoute /\ [][NextRoundTrip]_vars

\* any sequence of drawRoute and deleteCurrentRoute calls
NextPolyline ==
  \/ drawRoute
  \/ deleteCurrentRoute

SpecPolyline == InitRoute /\ [][NextPolyline]_vars

\* raycasts between context acquisitions and draws
NextPick ==
  \/ setMap
  \/ onContextRestored
  \/ onDraw
  \/ raycast

InitPick ==
  /\ Init
  /\ adapter = "google"
  /\ optCamera = 0

SpecPick == InitPick /\ [][NextPick]_vars

\* ------------------------------------------------------------- properties
LiveEngines == {e \in DOMAIN engines : ~engines[e].disposed}
LiveScenes == {s \in DOMAIN scenes : ~scenes[s].disposed}

\* Ready: engine and scene present and live
Ready ==
  /\ _engine # 0 /\ ~engines[_engine].disposed
  /\ _scene # 0 /\ ~scenes[_scene].disposed

\* the last handler was a draw callback that rendered the scene
Rendered == lastEvent = "draw" /\ lastDraw.rendered # 0

Positions(calls) == {i \in DOMAIN lastDraw.log : lastDraw.log[i] \in calls}

\* C1: in every draw call that renders, the reset of the shared GL state
\* (resetEngineState) comes first, then the projection is set from the
\* transform of that call, then the scene is rendered; no render without a
\* preceding reset and no projection before the reset.
C1_ResetProjectionRender ==
  Rendered =>
    /\ \E i \in Positions({"resetEngineState"}) :
         \E j \in Positions(ProjectionCalls) :
           \E k \in Positions({"render"}) : i < j /\ j < k
    /\ \A k \in Positions({"render"}) :
         \E i \in Positions({"resetEngineState"}) : i < k
    /\ \A j \in Positions(ProjectionCalls) :
         \E i \in Positions({"resetEngineState"}) : i < j

\* C2: in every draw call that renders, wipeCaches is called after the
\* render and before every repaint request of that callback, and the engine
\* holds no cached GL state when the callback returns.
C2_WipeAfterRender ==
  Rendered =>
    /\ \A k \in Positions({"render"}) :
         \E w \in Positions({"wipeCaches"}) :
           /\ k < w
           /\ \A r \in Positions(RepaintCalls) : w < r
    /\ engines[_engine].cache = "wiped"

C2_Witness ==
  /\ Rendered
  /\ adapter = "google"
  /\ lastDraw.redraws > 0

C4_RedrawPerMode ==
  (Rendered /\ adapter = "google") =>
    /\ animationMode = "always" => (lastDraw.redraws = 1 /\ redrawPending)
    /\ animationMode = "ondemand" => (lastDraw.redraws = 0 /\ ~redrawPending)

C4_Witness ==
  /\ Rendered
  /\ adapter = "google"
  /\ animationMode = "always"
  /\ lastDraw.redraws = 1

\* C5: a context-lost event received in Ready leaves both the current
\* engine and the current scene disposed.
C5_ContextLostDisposesBoth ==
  [][(onContextLost /\ Ready) =>
       (engines'[_engine].disposed /\ scenes'[_scene].disposed)]_vars

C5_Witness ==
  /\ lastEvent = "contextLost"
  /\ _engine # 0 /\ engines[_engine].disposed
  /\ _scene # 0 /\ scenes[_scene].disposed

\* C6: every context-acquired event leaves the overlay with an engine and a
\* scene constructed in that event; the engine and scene held before are
\* disposed, and a draw call only ever renders the current scene.
C6_AcquireCreatesNew ==
  /\ [][(onContextRestored \/ _onAdd) =>
          /\ _engine' \notin DOMAIN engines
          /\ _scene' \notin DOMAIN scenes
          /\ ~engines'[_engine'].disposed
          /\ ~scenes'[_scene'].disposed
          /\ scenes'[_scene'].engine = _engine'
          /\ _engine # 0 => engines'[_engine].disposed
          /\ _scene # 0 => scenes'[_scene].disposed]_vars
  /\ [](Rendered => (lastDraw.rendered = _scene /\ Ready
                      /\ scenes[_scene].engine = _engine))

C6_Witness ==
  /\ lastEvent = "contextAcquired"
  /\ _engine = 2
  /\ engines[1].disposed
  /\ ~engines[2].disposed

\* C7: with no camera in the options, after every context acquisition the
\* overlay's camera belongs to the scene created in that acquisition.
C7_FreshCamera ==
  (optCamera = 0 /\ lastEvent = "contextAcquired")
    => cameras[_camera].scene = _scene

\* C8: with a camera in the options, the overlay's camera is that camera in
\* every Ready state and no other camera is ever created.
C8_SuppliedCameraKept ==
  optCamera # 0 =>
    /\ Ready => _camera = optCamera
    /\ Len(cameras) = 1

\* C9: after the remove callback no engine or scene created by the overlay
\* is live.
C9_RemoveDisposes ==
  lastEvent = "remove" => (LiveEngines = {} /\ LiveScenes = {})

\* C10: at most one live engine and at most one live scene at any time.
C10_OneLiveHandle ==
  /\ Cardinality(LiveEngines) <= 1
  /\ Cardinality(LiveScenes) <= 1

C10_Witness ==
  /\ Len(engines) >= 2
  /\ Cardinality(LiveEngines) = 1
  /\ Cardinality(LiveScenes) = 1
  /\ hostCtx


\* ------------------------------------------------- the readiness wait
Waits == DOMAIN waits

\* C11: a waitForSceneInit() call made once the overlay has been Ready
\* completes in that call: it is resolved without any timer and without any
\* further host event. Once Ready has been entered the scene reference stays
\* set, so every later call finds it.
C11_WaitAfterReadyCompletes ==
  /\ [](\A i \in Waits :
          waits[i].sceneAtStart =>
            /\ waits[i].state = "resolved"
            /\ waits[i].polls = 0
            /\ ~waits[i].timer)
  /\ [][Ready => _scene' # 0]_vars
  /\ [][\A i \in Waits : waits[i].sceneAtStart = (waits'[i]).sceneAtStart]_vars

C11_Witness ==
  \E i \in Waits :
    /\ waits[i].sceneAtStart
    /\ waits[i].state = "resolved"
    /\ lastEvent = "waitForSceneInit"

WaitResolved(i) ==
  IF i \in Waits THEN waits[i].state = "resolved" ELSE FALSE

\* C12: a waitForSceneInit() call made before the scene exists is not
\* resolved while the scene does not exist, is resolved at most once, and,
\* timers being fired, is resolved once the scene exists.
C12_WaitBeforeReady ==
  /\ [](\A i \in Waits :
          /\ waits[i].state = "resolved" => _scene # 0 /\ _engine # 0
          /\ waits[i].resolves <= 1
          /\ waits[i].state = "resolved" <=> waits[i].resolves = 1
          /\ waits[i].state = "resolved" => ~waits[i].timer)
  /\ \A i \in 1..MaxWaits :
       (i \in Waits /\ _scene # 0) ~> WaitResolved(i)

C12_Witness ==
  \E i \in Waits :
    /\ ~waits[i].sceneAtStart
    /\ waits[i].polls > 0
    /\ waits[i].state = "resolved"

\* C13: a pending waitForSceneInit() schedules no timer and makes no
\* repeated check.
C13_NoPolling ==
  \A i \in Waits : ~waits[i].timer /\ waits[i].polls = 0


\* ---------------------------------------------------------- orientation
UnknownNames ==
  {AxisName(n) : n \in {m \in AxisNames : ToLowerCase(m) \notin {"y", "z"}}}

YOrientation == OrientationOf(UpAxisQuaternion(AxisName("Y")), adapter)
ZOrientation == OrientationOf(UpAxisQuaternion(AxisName("Z")), adapter)

\* quarter turns of an entry of rotationArray
QuarterTurns(a) == IF adapter = "google" THEN a \div 90 ELSE a

Cos4(n) == CASE n % 4 = 0 -> 1 [] n % 4 = 2 -> -1 [] OTHER -> 0
Sin4(n) == CASE n % 4 = 1 -> 1 [] n % 4 = 3 -> -1 [] OTHER -> 0

RotateX(n, v) ==
  <<v[1], v[2] * Cos4(n) - v[3] * Sin4(n), v[2] * Sin4(n) + v[3] * Cos4(n)>>
RotateY(n, v) ==
  <<v[1] * Cos4(n) + v[3] * Sin4(n), v[2], v[3] * Cos4(n) - v[1] * Sin4(n)>>
RotateZ(n, v) ==
  <<v[1] * Cos4(n) - v[2] * Sin4(n), v[1] * Sin4(n) + v[2] * Cos4(n), v[3]>>

\* the rotation the Euler triple e describes (yaw e[2], pitch e[1], roll e[3])
EulerRotate(e, v) ==
  RotateY(QuarterTurns(e[2]),
          RotateX(QuarterTurns(e[1]), RotateZ(QuarterTurns(e[3]), v)))

Basis == {<<1, 0, 0>>, <<0, 1, 0>>, <<0, 0, 1>>}

\* C14: after setUpAxis with a string that is neither 'Y' nor 'Z' in any
\* case, a warning has been logged and the orientation fields are those that
\* setUpAxis('Y') produces, whatever they were before the call.
C14_UnknownNameFallsBackToY ==
  lastAxis.axis \in UnknownNames =>
    /\ lastAxis.warned
    /\ Orientation = YOrientation

C14_Witness ==
  /\ lastAxis.axis \in UnknownNames
  /\ lastAxis.prev = ZOrientation
  /\ lastAxis.warned
  /\ Orientation = YOrientation

\* C15 as stated: after setUpAxis with an unknown axis name the inverse
\* quaternion and the Euler triple equal their values before the call.
C15_UnknownNameKeepsPrevious ==
  lastAxis.axis \in UnknownNames => Orientation = lastAxis.prev

\* C15, amended: after setUpAxis with an unknown axis name the inverse
\* quaternion and the Euler triple are the default ones (identity, zero
\* triple); they equal their values before the call only if those were the
\* default ones already.
C15_UnknownNameResetsToDefault ==
  lastAxis.axis \in UnknownNames =>
    /\ rotationInverse = InitialOrientation.inverse
    /\ rotationArray = InitialOrientation.array
    /\ (Orientation = lastAxis.prev) <=> (lastAxis.prev = InitialOrientation)

C15_Witness ==
  /\ lastAxis.axis \in UnknownNames
  /\ lastAxis.prev = ZOrientation
  /\ Orientation # lastAxis.prev

\* C16: after setUpAxis('Y') the Euler triple is zero and the stored inverse
\* is the identity; after setUpAxis('Z') the orientation rotates (0,0,1) to
\* (0,1,0) and the stored inverse rotates (0,1,0) back to (0,0,1).
C16_NamedAxisOrientation ==
  /\ (lastAxis.axis.kind = "string" /\ ToLowerCase(lastAxis.axis.name) = "y") =>
       /\ rotationArray = <<0, 0, 0>>
       /\ rotationInverse = [x |-> 0, y |-> 0, z |-> 0, w |-> 1, n2 |-> 1]
  /\ (lastAxis.axis.kind = "string" /\ ToLowerCase(lastAxis.axis.name) = "z") =>
       /\ EulerRotate(rotationArray, <<0, 0, 1>>) = <<0, 1, 0>>
       /\ ApplyRotationQuaternion(<<0, 1, 0>>, rotationInverse) = <<0, 0, 1>>

\* C17: the Euler triple and the inverse quaternion describe the same
\* rotation q, the one of the most recent setUpAxis: the triple is the Euler
\* form of q, the quaternion is the inverse of q, so that the stored inverse
\* undoes the rotation of the triple.
C17_TripleAndInverseAgree ==
  /\ rotationArray = RotationArrayOf(UpAxisQuaternion(lastAxis.axis), adapter)
  /\ rotationInverse = QuaternionInvert(UpAxisQuaternion(lastAxis.axis))
  /\ \A b \in Basis :
       ApplyRotationQuaternion(EulerRotate(rotationArray, b),
                               rotationInverse) = b


\* --------------------------------------------------------------- anchor
\* C18: after setAnchor(a) the stored anchor is a new object whose latitude,
\* longitude and altitude come from a alone, with altitude 0 when a has no
\* altitude property whatever the previous anchor was; a later change of the
\* object passed in leaves the stored anchor as it is.
C18_AnchorIsFreshSnapshot ==
  /\ [](lastEvent = "setAnchor" =>
          /\ anchorRef = "own"
          /\ Anchor.lat = points.arg.lat
          /\ Anchor.lng = points.arg.lng
          /\ Anchor.altitude = IF points.arg.hasAltitude
                                 THEN points.arg.altitude ELSE Num(0))
  /\ [][lastEvent' = "mutatePoint" => Anchor' = Anchor]_vars

C18_Witness ==
  /\ lastEvent = "mutatePoint"
  /\ AnchorFields(Anchor) # AnchorFields(points.arg)
  /\ Anchor.altitude = Num(0)

\* C19: for every accepted input the record toLatLngAltitudeLiteral returns
\* has a defined altitude, the input's when it has one and 0 otherwise (also
\* for a literal whose altitude property is present but undefined), and the
\* latitude and longitude of the input.
C19_AltitudeAlwaysDefined ==
  \A point \in Points :
    (lastEvent = "setAnchor" /\ points.arg = point) =>
      /\ points.own = toLatLngAltitudeLiteral(point)
      /\ toLatLngAltitudeLiteral(point).altitude.def
      /\ toLatLngAltitudeLiteral(point).altitude =
           IF point.altitude.def THEN point.altitude ELSE Num(0)
      /\ toLatLngAltitudeLiteral(point).lat = point.lat
      /\ toLatLngAltitudeLiteral(point).lng = point.lng

\* C20: every draw call that renders computes its projection from the anchor
\* and the Euler triple as they are at that call, i.e. as the most recent
\* setAnchor (or the construction) and the most recent setUpAxis left them,
\* and from the transform of that call.
C20_DrawUsesCurrentConfig ==
  Rendered =>
    /\ lastDraw.renderProj.transform = lastDraw.transform
    /\ lastDraw.renderProj.anchor = AnchorFields(Anchor)
    /\ lastDraw.renderProj.rotation =
         IF adapter = "google"
           THEN rotationArray
           ELSE <<rotationArray[2], -rotationArray[1], rotationArray[3]>>

C20_Witness ==
  /\ Rendered
  /\ lastDraw.renderProj.anchor # NoProjection.anchor
  /\ lastDraw.renderProj.rotation # NoProjection.rotation
  /\ Orientation # YOrientation


\* --------------------------------------------------------- construction
\* C21: constructing an overlay without an anchor, or with an anchor that has
\* no altitude, completes, and the anchor is then (0, 0, 0), respectively the
\* given latitude and longitude with altitude 0.
C21_MissingAnchorIsDefault ==
  lastEvent = "constructor" =>
    /\ ~construction.threw
    /\ ~construction.options.anchorGiven =>
         AnchorFields(Anchor) = [lat |-> 0, lng |-> 0, altitude |-> Num(0)]
    /\ (/\ construction.options.anchorGiven
        /\ ~construction.options.anchor.hasAltitude
        /\ ~construction.options.altitude.def) =>
         AnchorFields(Anchor) = [lat |-> construction.options.anchor.lat,
                                 lng |-> construction.options.anchor.lng,
                                 altitude |-> Num(0)]

\* C22: when the upAxis option is omitted, the orientation after construction
\* is the one setUpAxis('Z') produces.
C22_DefaultUpAxisIsZ ==
  (/\ lastEvent = "constructor"
   /\ ~construction.threw
   /\ ~construction.options.upAxisGiven) => Orientation = ZOrientation


\* C23: initMap called with the id of an element that does not exist raises
\* an error whose message names that id, before setOptions, importLibrary and
\* the Map constructor; it does not return normally.
C23_MissingContainerFailsFast ==
  (mapInit.called /\ mapInit.id \notin mapInit.elements) =>
    /\ mapInit.outcome = "threw"
    /\ mapInit.names = mapInit.id
    /\ mapInit.steps = <<>>


\* ---------------------------------------------------------- mesh fix-up
\* C24: after two applications of the mesh fix-up (and after any even number
\* of them) the index buffer equals the original one element by element.
C24_TwiceRestoresWinding ==
  mesh.fixes % 2 = 0 =>
    /\ mesh.indices.has = mesh.orig.indices.has
    /\ Len(mesh.indices.buf) = Len(mesh.orig.indices.buf)
    /\ \A i \in DOMAIN mesh.indices.buf :
         mesh.indices.buf[i] = mesh.orig.indices.buf[i]

C24_Witness ==
  /\ mesh.fixes = 2
  /\ Len(mesh.indices.buf) = 3 * MaxTriangles
  /\ mesh.indices.buf = mesh.orig.indices.buf
  /\ GetReversedIndices(mesh.indices.buf) # mesh.indices.buf

\* C25: one application of fixMesh to a mesh with indices and positions turns
\* every triangle (a, b, c) into (a, c, b), keeps the number and order of the
\* triangles and the positions, and leaves normals computed from the reversed
\* indices and those positions; a mesh without indices or without positions
\* is left as it was.
C25_OneFixReversesAndRecomputes ==
  (adapter = "google" /\ mesh.fixes = 1) =>
    IF mesh.orig.indices.has /\ mesh.orig.positions.has
      THEN /\ mesh.indices.has
           /\ Len(mesh.indices.buf) = Len(mesh.orig.indices.buf)
           /\ \A k \in 1..(Len(mesh.orig.indices.buf) \div 3) :
                /\ mesh.indices.buf[3 * k - 2] = mesh.orig.indices.buf[3 * k - 2]
                /\ mesh.indices.buf[3 * k - 1] = mesh.orig.indices.buf[3 * k]
                /\ mesh.indices.buf[3 * k] = mesh.orig.indices.buf[3 * k - 1]
           /\ mesh.positions = mesh.orig.positions
           /\ mesh.normals =
                ComputeNormals(mesh.orig.positions.buf, mesh.indices.buf)
      ELSE /\ mesh.indices = mesh.orig.indices
           /\ mesh.positions = mesh.orig.positions
           /\ mesh.normals = mesh.orig.normals

C25_Witness ==
  /\ adapter = "google"
  /\ mesh.fixes = 1
  /\ mesh.orig.positions.has
  /\ Len(mesh.indices.buf) = 3 * MaxTriangles
  /\ mesh.normals # mesh.orig.normals
  /\ mesh.orig.normals # <<>>


\* ------------------------------------------------------ resetEngineState
\* C26: right after resetEngineState, whatever GL state the host left, blend,
\* cull-face, scissor, stencil and polygon-offset-fill are disabled, depth
\* test is enabled with LEQUAL and depth writes on, all colour channels are
\* writable, front face is CCW and cull face BACK, the default framebuffer is
\* bound, viewport and scissor equal the full canvas, the blend equation is
\* FUNC_ADD and the blend function (ONE, ZERO) on both channels, and no 2D or
\* cube-map texture is bound on any texture unit.
C26_ResetYieldsBaseline ==
  gl.reset =>
    /\ ~gl.ctx.blend /\ ~gl.ctx.cullFace /\ ~gl.ctx.scissorTest
    /\ ~gl.ctx.stencilTest /\ ~gl.ctx.polygonOffsetFill
    /\ gl.ctx.depthTest /\ gl.ctx.depthFunc = "LEQUAL" /\ gl.ctx.depthMask
    /\ gl.ctx.colorMask = <<TRUE, TRUE, TRUE, TRUE>>
    /\ gl.ctx.frontFace = "CCW" /\ gl.ctx.cullFaceMode = "BACK"
    /\ gl.ctx.framebuffer = 0
    /\ gl.ctx.viewport = FullCanvas /\ gl.ctx.scissor = FullCanvas
    /\ gl.ctx.blendEquation = <<"FUNC_ADD", "FUNC_ADD">>
    /\ gl.ctx.blendFunc = <<"ONE", "ZERO", "ONE", "ZERO">>
    /\ \A u \in Units :
         gl.ctx.texture2D[u] = 0 /\ gl.ctx.textureCubeMap[u] = 0


\* a draw callback that got past its guard
PassedGuard ==
  /\ lastEvent = "draw"
  /\ lastDraw.log # <<>>
  /\ lastDraw.log[1] \in ProjectionCalls

\* C27: when a cache-wipe call throws during a draw call, the error does not
\* leave the draw callback and the remaining steps of the draw call still
\* run: the scene is rendered, the depth/culling state is applied (Google)
\* and the repaint is requested (Mapbox always, Google in "always" mode).
C27_FailingWipeIsTolerated ==
  (PassedGuard /\ lastDraw.wipeThrows /\ scenes[_scene].activeCamera # 0) =>
    /\ ~lastDraw.threw
    /\ lastDraw.rendered = _scene
    /\ adapter = "google" =>
         \E i \in DOMAIN lastDraw.log : lastDraw.log[i] = "applyDepthCullingState"
    /\ (adapter = "mapbox" \/ animationMode = "always") => lastDraw.redraws = 1


\* ---------------------------------------------------- coordinate transform
\* C28: for a point a small offset away from the reference, converting to
\* local coordinates, converting local x and z back with vector3ToLatLng
\* (origin = the reference) and converting to local coordinates again gives
\* the local point of the first conversion.
C28_RoundTripKeepsLocalPoint ==
  geo.done => geo.again = geo.local


\* ------------------------------------------------------- position on route
\* C29: for every route with a non-empty path, getPositionOnRoute(route, 0)
\* returns the first path point and getPositionOnRoute(route, 100) the last
\* path point, also for a single point and for trailing zero-length segments.
C29_EndsOfRoute ==
  lastRoute.called =>
    /\ lastRoute.percent = 0 => lastRoute.result = lastRoute.path[1] * 100
    /\ lastRoute.percent = 100 =>
         lastRoute.result = lastRoute.path[Len(lastRoute.path)] * 100

\* the end of a route that ends with a zero-length segment, answered from an
\* entry built earlier for another route of the same fingerprint
C29_Witness ==
  /\ lastRoute.called
  /\ lastRoute.percent = 100
  /\ Len(lastRoute.path) = MaxPathLen
  /\ lastRoute.path[1] # lastRoute.path[MaxPathLen]
  /\ lastRoute.path[MaxPathLen - 1] = lastRoute.path[MaxPathLen]
  /\ ~lastRoute.created
  /\ routeCaches[getRouteId(lastRoute.path)].path # lastRoute.path

EntryWellFormed(entry) ==
  /\ Len(entry.distances) = Len(entry.path)
  /\ entry.distances[1] = 0
  /\ \A i \in 1..(Len(entry.distances) - 1) :
       entry.distances[i] <= entry.distances[i + 1]
  /\ entry.distances[Len(entry.distances)] = entry.totalDistance

\* C30: over any sequence of getPositionOnRoute calls, createRouteCache runs
\* only when no entry exists for the route's fingerprint, an existing entry
\* is never overwritten or changed, and in every entry the distances list is
\* as long as the path, starts at 0, is non-decreasing and ends at
\* totalDistance.
C30_CacheEntryBuiltOnce ==
  /\ [](\A id \in DOMAIN routeCaches : EntryWellFormed(routeCaches[id]))
  /\ [][/\ \A id \in DOMAIN routeCaches :
             id \in DOMAIN routeCaches' /\ routeCaches'[id] = routeCaches[id]
        /\ lastRoute'.created <=>
             getRouteId(lastRoute'.path) \notin DOMAIN routeCaches]_vars

\* a call answered from an entry that was built for another route
C30_Witness ==
  /\ lastRoute.called
  /\ ~lastRoute.created
  /\ routeCaches[getRouteId(lastRoute.path)].path # lastRoute.path
  /\ Cardinality(DOMAIN routeCaches) = MaxCached


\* ----------------------------------------------------------------- raycast
\* C31: every element of the list raycast returns is an actual intersection
\* (a hit, with the object hit and its distance), and the list is empty when
\* the ray hits nothing.
C31_RaycastReturnsHitsOnly ==
  (lastPick.called /\ ~lastPick.threw) =>
    /\ \A i \in DOMAIN lastPick.result :
         /\ lastPick.result[i].hit
         /\ lastPick.result[i].pickedMesh \in lastPick.args.crossed
    /\ lastPick.args.crossed = {} => lastPick.result = <<>>

\* C32: a raycast whose options say updateMatrix: false, in either call
\* form, leaves the stored inverse projection matrix as it was.
C32_UpdateMatrixFalseKeepsInverse ==
  [][(/\ lastEvent' = "raycast"
      /\ lastPick'.args.options.updateMatrix = Given(FALSE))
       => projectionMatrixInverse' = projectionMatrixInverse]_vars


\* --------------------------------------------------- draws and readiness
\* the scene the overlay holds has an active camera
HasActiveCamera == _scene # 0 /\ scenes[_scene].activeCamera # 0

\* C33: a draw call that arrives while the overlay is not Ready (no context
\* acquired yet, context lost, or no active camera in the scene) renders
\* nothing and raises no error; the scene is rendered only when engine and
\* scene are present and not disposed.
C33_DrawOutsideReadyIsHarmless ==
  lastEvent = "draw" =>
    /\ ~(Ready /\ HasActiveCamera) =>
         (~lastDraw.threw /\ lastDraw.rendered = 0)
    /\ lastDraw.rendered # 0 => Ready


\* C34: with no camera in the options, once a context has been acquired
\* again after an earlier one was lost, a draw call that finds engine and
\* scene live passes the guard and renders the rebuilt scene.
C34_UsableAfterRestoration ==
  (/\ adapter = "google"
   /\ optCamera = 0
   /\ Len(engines) >= 2
   /\ Ready
   /\ lastEvent = "draw") =>
     (~lastDraw.threw /\ lastDraw.rendered = _scene)


\* the wait i is resolved by this step
ResolvesNow(i) ==
  /\ i \in DOMAIN waits'
  /\ waits'[i].state = "resolved"
  /\ (i \in DOMAIN waits => waits[i].state # "resolved")

\* C35: whenever a waitForSceneInit() promise resolves, the overlay is Ready
\* at that moment (scene and engine present and not disposed); a wait begun
\* while the context is lost does not resolve before the scene is rebuilt.
C35_ResolvedMeansReady ==
  [][\A i \in 1..MaxWaits : ResolvesNow(i) => Ready']_vars


\* ------------------------------------------------ routes queried earlier
\* C36: the position getPositionOnRoute returns depends only on the route's
\* own path and on percent: it is the position a first call for that route
\* returns, whichever routes were queried before, also when one of them has
\* the same first, middle and last point.
C36_ResultIndependentOfHistory ==
  lastRoute.called =>
    lastRoute.result =
      findPositionAtPercentage(createRouteCache(lastRoute.path),
                               Clamp(lastRoute.percent))


\* ------------------------------------------------------ the binary search
\* the index the search of findPositionAtPercentage ends with
FoundIndex(cache, percent) ==
  BinarySearch(cache.distances, TargetDistance(cache, percent), 1,
               Len(cache.distances))

\* findPositionAtPercentage interpolates for this percent
Interpolates(cache, percent) ==
  /\ cache.distances[FoundIndex(cache, percent)] * 100
       # cache.totalDistance * percent
  /\ FoundIndex(cache, percent) # 1

\* the cumulative distance of the position returned, in hundredths
ReturnedDistance(cache, percent) ==
  IF Interpolates(cache, percent)
    THEN cache.distances[FoundIndex(cache, percent) - 1] * 100
         + (cache.totalDistance * percent
            - cache.distances[FoundIndex(cache, percent) - 1] * 100)
    ELSE cache.distances[FoundIndex(cache, percent)] * 100

SearchIsLeast(cache, percent) ==
  LET i == FoundIndex(cache, percent) IN
  /\ i \in 1..Len(cache.distances)
  /\ cache.distances[i] * 100 >= cache.totalDistance * percent
  /\ \A j \in 1..(i - 1) :
       cache.distances[j] * 100 < cache.totalDistance * percent

InterpolationIsSafe(cache, percent) ==
  LET i == FoundIndex(cache, percent)
      target == cache.totalDistance * percent
  IN Interpolates(cache, percent) =>
       /\ cache.distances[i - 1] * 100 < target
       /\ target <= cache.distances[i] * 100
       /\ cache.distances[i] - cache.distances[i - 1] > 0
       /\ target - cache.distances[i - 1] * 100 > 0
       /\ target - cache.distances[i - 1] * 100
            <= (cache.distances[i] - cache.distances[i - 1]) * 100

\* C37: for the cache entry a call works on and every whole percent from 0
\* to 100 the
\* binary search ends with the least index whose cumulative distance is at
\* least the target; when the position is interpolated the target lies in
\* (distances[i-1], distances[i]], so the segment has positive length and the
\* fraction is in (0, 1]; and the cumulative distance of the position
\* returned never decreases as percent grows.
C37_SearchFindsLeastIndex ==
  lastRoute.called =>
    LET cache == routeCaches[getRouteId(lastRoute.path)] IN
    /\ \A percent \in 0..100 :
         /\ SearchIsLeast(cache, percent)
         /\ InterpolationIsSafe(cache, percent)
    /\ \A percent \in 0..99 :
         ReturnedDistance(cache, percent) <= ReturnedDistance(cache, percent + 1)

\* a call whose position was interpolated, on a route of MaxPathLen points
\* answered from that route's own entry
C37_Witness ==
  /\ lastRoute.called
  /\ lastRoute.percent = 50
  /\ Len(lastRoute.path) = MaxPathLen
  /\ lastRoute.path = routeCaches[getRouteId(lastRoute.path)].path
  /\ Interpolates(routeCaches[getRouteId(lastRoute.path)], 50)
  /\ FoundIndex(routeCaches[getRouteId(lastRoute.path)], 50) > 1


\* --------------------------------------------------------- drawn polylines
\* C38: after deleteCurrentRoute() returns, no polyline created by an earlier
\* drawRoute call is still on the map, whatever the sequence of drawRoute and
\* deleteCurrentRoute calls; before any drawRoute it changes nothing.
C38_DeleteRemovesEveryPolyline ==
  lastEvent = "deleteCurrentRoute" =>
    \A i \in DOMAIN polylineMap : ~polylineMap[i]

====
